---- MODULE Spec2Model ----
(***************************************************************************)
(* The write pipeline of spinta (spinta/commands/write.py): push_stream    *)
(* and its stages, driven one DataItem at a time the way the chain of      *)
(* async generators is pulled by its consumer.                             *)
(***************************************************************************)
EXTENDS Integers, Sequences, FiniteSets, TLC

\* Largest number of payloads one request stream carries.
MaxItems == 3

----------------------------------------------------------------------------
\* Python values

\* Optional values: None is the empty tuple, a present value a 1-tuple.
None == <<>>
Some(x) == <<x>>

\* None of a name-valued field (model, prop, backend, action, error).
NoName == "None"

\* NA, the "not available" sentinel of spinta.utils.schema, among field values.
NA == -1

\* The empty dict.
EmptyDict == [k \in {} |-> 0]

INSERT == "insert"
UPSERT == "upsert"
UPDATE == "update"
PATCH == "patch"
DELETE == "delete"

\* The actions push_stream has a command for.
Actions == {INSERT, UPSERT, UPDATE, PATCH, DELETE}

AuthErrors == {"InsufficientScopeError", "AuthorizedClientsOnly"}

----------------------------------------------------------------------------
\* The manifest the requests run against: one model M with two scalar
\* properties, everything on one backend.

Models == {"M"}

PropNames == {"title", "p"}

model_type(model) == model

ModelBackend(model) == "mongo"

PropBackend(prop) == "mongo"

\* dtype.prop.default of a scalar property.
Default(prop) == 0

\* The namespace the request URL names: the root namespace.
RequestScope == ""

in_namespace(model, scope) == scope = "" \/ scope = model

----------------------------------------------------------------------------
\* Authorization

\* A scope string '{prefix}{name}_{action}' as the pair it is built from; an
\* empty name gives '{prefix}{action}'.
ScopeName(name, action) == <<name, action>>

\* Access levels, lowest first.
AccessOrder == <<"private", "protected", "public", "open">>

AccessRank(level) == CHOOSE i \in 1..Len(AccessOrder) : AccessOrder[i] = level

\* node.access of the model and of its properties.
Access(model, prop) == "protected"

\* prop.hidden
Hidden(prop) == FALSE

\* config.default_auth_client
DefaultAuthClient == "default"

\* A node of the manifest as authorized() reads it: its kind, the name of its
\* own scope, its model's type, the name of its namespace, the names of that
\* namespace's parents, node.access and node.hidden.
Node(kind, own, model, ns, parents, access, hidden) ==
    [kind |-> kind, own |-> own, model |-> model, ns |-> ns, parents |-> parents,
     access |-> access, hidden |-> hidden]

\* The node of a model of the manifest or of one of its properties; the
\* models are in the root namespace "".
ManifestNode(model, prop) ==
    IF prop # NoName
    THEN Node("property", model_type(model) \o "_" \o prop, model_type(model), "", {},
              Access(model, prop), Hidden(prop))
    ELSE Node("model", model_type(model), model_type(model), "", {},
              Access(model, prop), FALSE)

\* No client is turned away before the scopes are looked at.
Unauthorized_never(tok, node) == FALSE

\* The default client on a node below open access.
Unauthorized(tok, node) ==
    /\ tok.client = DefaultAuthClient
    /\ AccessRank(node.access) < AccessRank("open")

\* Inherited scopes count for private nodes too.
InheritsScopes_always(node) == TRUE

\* Whether scopes other than the node's own count.
InheritsScopes(node) == AccessRank(node.access) > AccessRank("private")

\* The inherited names with the hidden flag ignored.
InheritedNames_hidden_too(node) ==
    CASE node.kind = "property" -> {node.model, node.ns} \cup node.parents
      [] node.kind = "model" -> {node.ns} \cup node.parents
      [] node.kind = "ns" -> node.parents

\* The names a node inherits scopes from: model and namespaces for a property
\* that is not hidden, the namespaces for a model, the parents for a namespace.
InheritedNames(node) ==
    CASE node.kind = "property" ->
           IF ~node.hidden THEN {node.model, node.ns} \cup node.parents ELSE {}
      [] node.kind = "model" -> {node.ns} \cup node.parents
      [] node.kind = "ns" -> node.parents

\* The names authorized() builds its scopes from.
NodeScopeNames(node) ==
    (IF InheritsScopes(node) THEN InheritedNames(node) ELSE {}) \cup {node.own}

\* token.valid_scope(scopes, operator='OR')
valid_scope(tok, scopes) == scopes \cap tok.scopes # {}

\* authorized(context, node, action, throw=throw): "True" or "False" when it
\* returns one, "None" when it returns from token.check_scope, else the
\* exception it raises.
authorized_node(tok, node, action, throw) ==
    IF Unauthorized(tok, node)
    THEN IF throw THEN "AuthorizedClientsOnly" ELSE "False"
    ELSE LET ok == valid_scope(tok, {ScopeName(n, action) : n \in NodeScopeNames(node)})
         IN IF throw
            THEN IF ok THEN "None" ELSE "InsufficientScopeError"
            ELSE IF ok THEN "True" ELSE "False"

\* check_generated_scopes(context, name, action, prop, prop_hidden): "None"
\* when it returns, else the exception it raises.
check_generated_scopes(tok, name, action, prop, prop_hidden) ==
    IF valid_scope(tok, {ScopeName("", action)}) THEN "None"
    ELSE LET required == IF prop = NoName THEN {ScopeName(name, action)}
                         ELSE IF prop_hidden THEN {ScopeName(prop, action)}
                         ELSE {ScopeName(name, action), ScopeName(prop, action)}
         IN IF valid_scope(tok, required) THEN "None" ELSE "InsufficientScopeError"

\* The names authorized() builds its scopes from for a node of the manifest.
ScopeNames(model, prop) == NodeScopeNames(ManifestNode(model, prop))

\* authorized(context, node, action, throw=True): the error it raises, or NoName.
authorized(tok, model, prop, action) ==
    LET r == authorized_node(tok, ManifestNode(model, prop), action, TRUE)
    IN IF r = "None" THEN NoName ELSE r

\* commands.authorize(context, action, node)
authorize(tok, model, prop, action) == authorized(tok, model, prop, action)

\* A scope every token is taken to hold.
check_scope_granted(tok, scope) == TRUE

\* check_scope(context, scope): whether the token holds '{prefix}{scope}'.
check_scope(tok, scope) == ScopeName("", scope) \in tok.scopes

\* report_error(error, stop_on_error): TRUE when it raises the error.
report_error(stop) == stop

----------------------------------------------------------------------------
\* DataItem

DataItem(idx, model, prop, propref, backend, action, payload, error) ==
    [idx |-> idx, model |-> model, prop |-> prop, propref |-> propref,
     backend |-> backend, action |-> action, payload |-> payload,
     given |-> None, saved |-> None, patch |-> None, error |-> error]

Payload(type, op, where, id, revision, vals, load) ==
    [dict |-> TRUE, type |-> type, op |-> op, where |-> where, id |-> id,
     revision |-> revision, vals |-> vals, load |-> load]

Where(name, field, value) == [name |-> name, field |-> field, value |-> value]

\* The payloads a client sends in this model.  Row 1 is stored before the
\* request; row 2 is not.
Payloads ==
    { Payload(<<"M">>, INSERT, None, None, None, [k \in {"title"} |-> 1], "ok"),
      Payload(<<"M">>, INSERT, None, None, Some(7), [k \in {"title"} |-> 1], "ok"),
      Payload(<<"M">>, INSERT, None, Some(2), None, [k \in {"title"} |-> 1], "ok"),
      Payload(<<"M">>, INSERT, None, None, None, [k \in {"title"} |-> 1], "UserError"),
      Payload(<<"M">>, INSERT, None, None, None, [k \in {"title"} |-> 1],
              "InsufficientScopeError"),
      Payload(<<"M">>, UPDATE, Some(Where("eq", "_id", 1)), None, None,
              [k \in {"title"} |-> 2], "ok"),
      Payload(<<"M">>, UPDATE, Some(Where("eq", "_id", 2)), None, None,
              [k \in {"title"} |-> 2], "ok"),
      Payload(<<"M">>, PATCH, Some(Where("eq", "title", 2)), None, None,
              [k \in {"p"} |-> 2], "ok"),
      Payload(<<"M">>, PATCH, Some(Where("eq", "_id", 1)), None, None,
              [k \in {"title"} |-> 1], "ok"),
      Payload(<<"M">>, PATCH, Some(Where("eq", "_id", 1)), None, Some(7),
              [k \in {"title"} |-> 2], "ok"),
      Payload(<<"M">>, UPSERT, Some(Where("eq", "_id", 2)), Some(2), None,
              [k \in {"title"} |-> 1], "ok"),
      Payload(<<"M">>, DELETE, Some(Where("eq", "_id", 1)), None, None, EmptyDict, "ok"),
      Payload(<<"M", "p">>, UPDATE, Some(Where("eq", "_id", 1)), None, Some(5),
              [k \in {"p"} |-> 2], "ok"),
      Payload(<<"M", "p">>, UPDATE, Some(Where("eq", "_id", 1)), None, None,
              [k \in {"p"} |-> 2], "ok"),
      Payload(<<"M", "p">>, PATCH, Some(Where("eq", "_id", 1)), None, None,
              [k \in {"p"} |-> 2], "ok"),
      Payload(<<>>, INSERT, None, None, None, [k \in {"title"} |-> 1], "ok"),
      Payload(<<"M">>, "wipe", None, None, None, EmptyDict, "ok") }

\* Tokens a request may carry: every scope; the scopes of a client that may
\* neither delete nor set metadata fields; the default client.
Tokens ==
    { [client |-> "admin",
       scopes |-> {ScopeName("", a) : a \in Actions \cup {"set_meta_fields"}}],
      [client |-> "editor",
       scopes |-> {ScopeName("M", INSERT), ScopeName("M", UPSERT), ScopeName("M", PATCH),
                   ScopeName("M_p", UPDATE), ScopeName("M", UPDATE)}],
      [client |-> DefaultAuthClient,
       scopes |-> {ScopeName("", a) : a \in Actions}] }

\* The rows stored before the request.
InitialStore == { [id |-> 1, revision |-> 5, vals |-> [k \in {"title"} |-> 1]] }

\* First value gen_object_id hands out; every later one is larger.
FirstFresh == 100

----------------------------------------------------------------------------
VARIABLES
    stop_on_error,  \* push_stream's flag
    token,          \* the scopes of the request's token
    input,          \* the payloads read from the request so far
    seen,           \* the DataItems made from them, each with its group's number
    pc,             \* where the pipeline stands
    cur,            \* the DataItem in flight, or None
    group,          \* the key of the group in progress, or None
    ngroups,        \* groups started so far
    store,          \* the backend table: a set of rows
    changelog,      \* the changelog, oldest entry first
    out,            \* the DataItems push_stream has yielded
    log,            \* authorize calls, backend reads and writes, changelog appends, yields
    errs,           \* the errors created while the stream ran
    raised,         \* the exception push_stream ended with, or NoName
    fresh,          \* next value of gen_object_id
    patch_call,     \* a call of build_data_patch_for_write: its arguments and result
    writers,        \* two requests writing to one table: each one's item and position
    auth_call,      \* a call of authorized or check_generated_scopes and its result
    builder,        \* a SqlQueryBuilder environment and the calls made on it
    response,       \* the response push builds from the items push_stream yielded
    request         \* a request outside push_stream: a body being read, or a wipe

\* The state of a push_stream run.
stream_vars == <<stop_on_error, token, input, seen, pc, cur, group, ngroups, store,
                 changelog, out, log, errs, raised, fresh>>

\* What a push_stream run leaves alone.
call_vars == <<patch_call, writers, auth_call, builder, response, request>>

vars == <<stream_vars, call_vars>>

\* A log entry about an item; target is the node an authorize call was given,
\* or the backend primitive a write went to.
Event(ev, item, target) ==
    [ev |-> ev, idx |-> item.idx, grp |-> ngroups, model |-> item.model,
     prop |-> item.prop, action |-> item.action, target |-> target]

\* An error, the item and the stage it arose in, and how much had been logged
\* and yielded by then.
Err(name, item) ==
    [name |-> name, idx |-> item.idx, stage |-> pc, at |-> Len(log), outat |-> Len(out)]

----------------------------------------------------------------------------
\* Reading the request

Raise(name) == [raise |-> name, item |-> None]

Return(item) == [raise |-> NoName, item |-> Some(item)]

\* An error item: report_error raises the error when stop_on_error is set,
\* otherwise the item carrying it is returned.
Reported(stop, name, item) == IF report_error(stop) THEN Raise(name) ELSE Return(item)

_action_from_op(payload) ==
    IF payload.op \notin Actions THEN "UnknownAction" ELSE payload.op

dataitem_from_payload(payload, stop, idx) ==
    IF ~payload.dict
    THEN Reported(stop, "InvalidValue",
                  DataItem(idx, NoName, NoName, FALSE, NoName, NoName, None, "InvalidValue"))
    ELSE IF payload.type = <<>>
    THEN Return(DataItem(idx, NoName, NoName, FALSE, NoName, NoName, Some(payload),
                         "MissingRequiredProperty"))
    ELSE
      LET model == payload.type[1]
          hasprop == Len(payload.type) > 1
          propref == Len(payload.type) > 2
          prop == IF hasprop THEN payload.type[2] ELSE NoName
          backend == IF hasprop /\ ~propref THEN PropBackend(prop) ELSE ModelBackend(model)
      IN
      IF model \notin Models
      THEN Reported(stop, "ModelNotFound",
                    DataItem(idx, model, NoName, FALSE, NoName, NoName, Some(payload),
                             "ModelNotFound"))
      ELSE IF hasprop /\ prop \notin PropNames
      THEN Reported(stop, "FieldNotInResource",
                    DataItem(idx, model, NoName, FALSE, NoName, NoName, Some(payload),
                             "FieldNotInResource"))
      ELSE IF ~in_namespace(model, RequestScope)
      THEN Reported(stop, "OutOfScope",
                    DataItem(idx, model, prop, propref, backend, NoName, Some(payload),
                             "OutOfScope"))
      ELSE IF payload.op = NoName
      THEN Return(DataItem(idx, NoName, NoName, FALSE, NoName, NoName, Some(payload),
                           "MissingRequiredProperty"))
      ELSE IF _action_from_op(payload) = "UnknownAction"
      THEN Reported(stop, "UnknownAction",
                    DataItem(idx, model, prop, propref, backend, NoName, Some(payload),
                             "UnknownAction"))
      ELSE Return(DataItem(idx, model, prop, propref, backend, _action_from_op(payload),
                           Some(payload), NoName))

\* agroupby: an item starts a group when its key is not the key of the item
\* before it.
agroupby_starts_group(last, key) == last # Some(key)

\* A key that leaves the action out.
_stream_group_key_noaction(data) == <<data.model, data.prop, data.backend>>

_stream_group_key(data) == <<data.model, data.prop, data.backend, data.action>>

\* The bypass test with "and" for "or".
Bypass_and(model, action) == model = NoName /\ action = NoName

\* The test push_stream makes on a group's key before it re-emits the group as is.
Bypass(model, action) == model = NoName \/ action = NoName

\* authorize handed the model also for a property sub-resource.
AuthTarget_model(model, prop) == model

\* The node push_stream hands to authorize.
AuthTarget(model, prop) == IF prop # NoName THEN prop ELSE model

----------------------------------------------------------------------------
\* Stage helpers

\* prepare_data run with the flag of push_stream.
prepare_data_stop_on_error_passed == stop_on_error

\* The default of prepare_data's stop_on_error parameter, which push_stream
\* does not pass.
prepare_data_stop_on_error == TRUE

\* The default of read_existing_data's stop_on_error parameter, which
\* push_stream does not pass.
read_existing_data_stop_on_error == TRUE

\* commands.load and commands.prepare on a payload that loads.
Load(payload) ==
    [where |-> payload.where, id |-> payload.id, revision |-> payload.revision,
     vals |-> payload.vals]

_has_id_in_where(given) ==
    /\ given.where # None
    /\ given.where[1].name = "eq"
    /\ given.where[1].field = "_id"

\* The rows commands.getone can return for an id; none when it raises
\* ItemDoesNotExist.
getone(table, id) == {row \in table : row.id = id}

\* _strip_metadata: the entries of a dict whose key does not start with "_";
\* a given or saved dict holds them under vals, its _id, _revision and _where
\* apart.
_strip_metadata(res) == res.vals

Get(d, k) == IF k \in DOMAIN d THEN d[k] ELSE NA

\* build_data_patch_for_write for a scalar DataType.
build_scalar_patch(prop, given, saved, fill) ==
    LET g == IF given = NA /\ fill THEN Default(prop) ELSE given
    IN IF g = NA THEN NA
       ELSE IF g # saved THEN g ELSE NA

\* build_data_patch_for_write for a Model.
build_model_patch(given, saved, fill) ==
    LET props == IF fill THEN PropNames ELSE DOMAIN given
        value(k) == build_scalar_patch(k, Get(given, k), Get(saved, k), fill)
    IN [k \in {q \in props : value(q) # NA} |-> value(k)]

\* build_data_patch_for_write for the DataType of a property sub-resource,
\* handed the stripped given and saved dicts; NA becomes {} in prepare_patch.
build_prop_patch(given, saved) == IF given # saved THEN given ELSE EmptyDict

gen_object_id(n) == n

\* A revision for every patch, the empty one too.
PatchNonEmpty_always(patch) == TRUE

\* The truth value of data.patch once its _id is decided.
PatchNonEmpty(patch) == patch.id # None \/ patch.revision # None \/ DOMAIN patch.vals # {}

\* Whether prepare_patch asks gen_object_id for the item's _id.
GeneratesId(data) ==
    LET given == data.given[1]
    IN /\ ~(given.id # None /\ (data.saved = None \/ given.id[1] # data.saved[1].id))
       /\ data.action = INSERT

\* An _id made by gen_object_id for every INSERT, also when one is given.
prepare_patch_id_generated(data, n) ==
    IF data.action = INSERT THEN Some(gen_object_id(n))
    ELSE IF data.given[1].id # None
            /\ (data.saved = None \/ data.given[1].id[1] # data.saved[1].id)
    THEN data.given[1].id
    ELSE None

\* The _id prepare_patch puts into the patch, or None.
prepare_patch_id(data, n) ==
    IF data.given[1].id # None
       /\ (data.saved = None \/ data.given[1].id[1] # data.saved[1].id)
    THEN data.given[1].id
    ELSE IF data.action = INSERT THEN Some(gen_object_id(n)) ELSE None

\* The patch prepare_patch leaves on an item; n is the next fresh identifier.
prepare_patch(data, n) ==
    LET given == data.given[1]
        saved == IF data.saved = None THEN EmptyDict ELSE _strip_metadata(data.saved[1])
        vals == IF data.prop # NoName
                THEN build_prop_patch(_strip_metadata(given), saved)
                ELSE build_model_patch(_strip_metadata(given), saved, data.action = UPDATE)
        p == [id |-> prepare_patch_id(data, n), revision |-> None, vals |-> vals]
    IN IF PatchNonEmpty(p)
       THEN [p EXCEPT !.revision = Some(gen_object_id(IF GeneratesId(data) THEN n + 1 ELSE n))]
       ELSE p

\* How many identifiers prepare_patch takes from gen_object_id.
FreshUsed(data, patch) ==
    (IF GeneratesId(data) THEN 1 ELSE 0) + (IF patch.revision # None THEN 1 ELSE 0)

\* upsert handing every item to insert, whatever was saved.
Cmd_upsert_inserts(data) ==
    CASE data.action \in {INSERT, UPSERT} -> "insert"
      [] data.action \in {UPDATE, PATCH} -> "update"
      [] data.action = DELETE -> "delete"

\* The primitive push_stream and upsert route an item to.
Cmd(data) ==
    CASE data.action = INSERT -> "insert"
      [] data.action = UPSERT -> IF data.saved # None THEN "update" ELSE "insert"
      [] data.action \in {UPDATE, PATCH} -> "update"
      [] data.action = DELETE -> "delete"

\* before_write: the document handed to the collection.
before_write(data) ==
    LET patch == data.patch[1]
    IN [id |-> IF patch.id # None THEN patch.id[1] ELSE NA,
        revision |-> IF patch.revision # None THEN patch.revision[1]
                     ELSE IF data.saved # None THEN data.saved[1].revision ELSE NA,
        vals |-> patch.vals]

\* $set of a before_write document on a stored row.
SetRow(row, doc) ==
    [id |-> IF doc.id # NA THEN doc.id ELSE row.id,
     revision |-> IF doc.revision # NA THEN doc.revision ELSE row.revision,
     vals |-> [k \in DOMAIN row.vals \cup DOMAIN doc.vals |->
                 IF k \in DOMAIN doc.vals THEN doc.vals[k] ELSE row.vals[k]]]

----------------------------------------------------------------------------
\* The patch engine on value trees

\* Longest array among the value trees a call is given.
MaxArrayLen == 2

\* Python values, tagged with their type: NA (absent), None, a number n, a
\* dict d (a function from keys to values), a list l (a sequence of values).
Na == [t |-> "na"]

Null == [t |-> "null"]

Num(n) == [t |-> "int", n |-> n]

Dict(f) == [t |-> "dict", d |-> f]

List(q) == [t |-> "list", l |-> q]

\* A call that ends in an exception.
Raised(name) == [t |-> "raise", e |-> name]

\* bool(value); NA is falsy.
Truthy(value) ==
    CASE value.t = "dict" -> DOMAIN value.d # {}
      [] value.t = "list" -> Len(value.l) > 0
      [] value.t = "int" -> value.n # 0
      [] OTHER -> FALSE

\* d.get(name, NA)
PyGet(d, name) == IF name \in DOMAIN d.d THEN d.d[name] ELSE Na

\* d.get(name, NA) if d else d
GetIf(d, name) == IF Truthy(d) THEN PyGet(d, name) ELSE d

\* Data types: a scalar of a property with a default, an object and a model
\* with their properties, an array with the type of its items.
Scalar(default) == [kind |-> "scalar", default |-> default]

Object(properties) == [kind |-> "object", properties |-> properties]

Array(items) == [kind |-> "array", items |-> items]

Model(properties) == [kind |-> "model", properties |-> properties]

\* prop.name.startswith('_')
IsInternal(name) == name \in {"_id", "_revision", "_type", "_op", "_where"}

\* The properties a Model or an Object patch is built over.
PatchProps(dtype, given, fill) ==
    IF fill
    THEN {k \in DOMAIN dtype.properties : ~IsInternal(k)}
    ELSE DOMAIN given.d

RECURSIVE build_data_patch_for_write(_, _, _, _)

\* build_data_patch_for_write for a Model: a dict, empty when nothing changed.
build_data_patch_for_write_Model(model, given, saved, fill) ==
    LET props == PatchProps(model, given, fill)
        value(k) == build_data_patch_for_write(model.properties[k], PyGet(given, k),
                                               PyGet(saved, k), fill)
    IN IF \E k \in props : value(k).t = "raise"
       THEN Raised("TypeError")
       ELSE Dict([k \in {q \in props : value(q) # Na} |-> value(k)])

\* build_data_patch_for_write for an Object: patch or NA.  Without fill the
\* keys of given are iterated, which None and NA do not have.
build_data_patch_for_write_Object(dtype, given, saved, fill) ==
    IF ~fill /\ given.t # "dict"
    THEN Raised("TypeError")
    ELSE LET props == PatchProps(dtype, given, fill)
             value(k) == build_data_patch_for_write(dtype.properties[k], GetIf(given, k),
                                                    GetIf(saved, k), fill)
             patch == [k \in {q \in props : value(q) # Na} |-> value(k)]
         IN IF \E k \in props : value(k).t = "raise"
            THEN Raised("TypeError")
            ELSE IF DOMAIN patch = {} THEN Na ELSE Dict(patch)

\* An array diffed element by element against what is saved at each index.
build_data_patch_for_write_Array_elementwise(dtype, given, saved, fill) ==
    IF given = Na /\ ~fill THEN Na
    ELSE IF given = Na THEN (IF Truthy(saved) THEN saved ELSE List(<<>>))
    ELSE IF given = Null THEN Null
    ELSE LET values == IF given.t = "list" THEN given.l ELSE <<>>
             old(i) == IF saved.t = "list" /\ i <= Len(saved.l) THEN saved.l[i] ELSE Na
             patch == List([i \in 1..Len(values) |->
                              build_data_patch_for_write(dtype.items, values[i], old(i), TRUE)])
         IN IF saved = patch THEN Na ELSE patch

\* build_data_patch_for_write for an Array: every element is built against
\* nothing saved and with fill, and the whole array is the patch unless it
\* equals the saved array.
build_data_patch_for_write_Array(dtype, given, saved, fill) ==
    IF given = Na /\ ~fill THEN Na
    ELSE IF given = Na THEN (IF Truthy(saved) THEN saved ELSE List(<<>>))
    ELSE IF given = Null THEN Null
    ELSE LET values == IF given.t = "list" THEN given.l ELSE <<>>
             patch == List([i \in 1..Len(values) |->
                              build_data_patch_for_write(dtype.items, values[i], Na, TRUE)])
         IN IF saved = patch THEN Na ELSE patch

\* A scalar whose value is the patch value also when it equals what is saved.
build_data_patch_for_write_DataType_uncompared(dtype, given, saved, fill) ==
    IF given = Na /\ ~fill
    THEN Na
    ELSE IF given = Na THEN dtype.default ELSE given

\* build_data_patch_for_write for any other DataType.
build_data_patch_for_write_DataType(dtype, given, saved, fill) ==
    IF given = Na /\ ~fill
    THEN Na
    ELSE LET g == IF given = Na THEN dtype.default ELSE given
         IN IF g # saved THEN g ELSE Na

\* commands.build_data_patch_for_write, dispatched on the type.
build_data_patch_for_write(dtype, given, saved, fill) ==
    CASE dtype.kind = "model" -> build_data_patch_for_write_Model(dtype, given, saved, fill)
      [] dtype.kind = "object" -> build_data_patch_for_write_Object(dtype, given, saved, fill)
      [] dtype.kind = "array" -> build_data_patch_for_write_Array(dtype, given, saved, fill)
      [] dtype.kind = "scalar" -> build_data_patch_for_write_DataType(dtype, given, saved, fill)

----------------------------------------------------------------------------
\* The pipeline

\* No call of build_data_patch_for_write under observation.
NoCall ==
    [dtype |-> Scalar(Na), given |-> Na, saved |-> Na, fill |-> FALSE,
     result |-> [t |-> "pending"]]

\* No second request in flight.
NoWriters == <<>>

\* No call of authorized under observation.
NoAuthCall == [fn |-> "none", result |-> "pending"]

\* No query builder in use.
NoBuilder == [calls |-> <<>>]

\* No response built yet.
NoResponse == [kind |-> "none"]

\* No request outside push_stream.
NoRequest == [kind |-> "none"]

Init ==
    /\ response = NoResponse
    /\ request = NoRequest
    /\ stop_on_error \in BOOLEAN
    /\ token \in Tokens
    /\ input = <<>>
    /\ seen = <<>>
    /\ pc = "next"
    /\ cur = None
    /\ group = None
    /\ ngroups = 0
    /\ store = InitialStore
    /\ changelog = <<>>
    /\ out = <<>>
    /\ log = <<>>
    /\ errs = <<>>
    /\ raised = NoName
    /\ fresh = FirstFresh
    /\ patch_call = NoCall
    /\ writers = NoWriters
    /\ auth_call = NoAuthCall
    /\ builder = NoBuilder

\* An exception leaves push_stream.
Abort(name, item) ==
    /\ raised' = name
    /\ pc' = "raised"
    /\ errs' = Append(errs, Err(name, item))

\* The next item pulled while the item before still waits to be yielded.
ReadyForNext_eager == pc \in {"next", "emit"}

\* push_stream asks its stream for the next item only once it has yielded
\* the item before.
ReadyForNext == pc = "next"

\* The request stream ends: agroupby and push_stream return.
EndOfStream ==
    /\ ReadyForNext
    /\ Len(input) >= 1
    /\ pc' = "done"
    /\ UNCHANGED <<stop_on_error, token, input, seen, cur, group, ngroups, store, changelog,
                   out, log, errs, raised, fresh>>
    /\ UNCHANGED call_vars

\* agroupby pulls the next payload from the request: dataitem_from_payload
\* makes its DataItem, and its key continues the group or starts one.
NextItem ==
    /\ ReadyForNext
    /\ Len(input) < MaxItems
    /\ \E payload \in Payloads :
         LET idx == Len(input) + 1
             r == dataitem_from_payload(payload, stop_on_error, idx)
         IN /\ input' = Append(input, payload)
            /\ IF r.raise # NoName
               THEN /\ Abort(r.raise, [idx |-> idx])
                    /\ UNCHANGED <<seen, cur, group, ngroups>>
               ELSE LET data == r.item[1]
                        key == _stream_group_key(data)
                        new == agroupby_starts_group(group, key)
                    IN /\ cur' = Some(data)
                       /\ seen' = Append(seen, [data |-> data,
                                                grp |-> IF new THEN ngroups + 1 ELSE ngroups])
                       /\ group' = Some(key)
                       /\ ngroups' = IF new THEN ngroups + 1 ELSE ngroups
                       /\ pc' = IF Bypass(data.model, data.action) THEN "emit"
                                ELSE IF new THEN "authorize" ELSE "prepare"
                       /\ errs' = IF data.error # NoName
                                  THEN Append(errs, Err(data.error, data))
                                  ELSE errs
                       /\ UNCHANGED raised
    /\ UNCHANGED <<stop_on_error, token, store, changelog, out, log, fresh>>
    /\ UNCHANGED call_vars

\* commands.authorize(context, action, prop or model), once for a group.
Authorize ==
    /\ pc = "authorize"
    /\ LET data == cur[1]
       IN /\ log' = Append(log, Event("authorize", data, AuthTarget(data.model, data.prop)))
          /\ IF authorize(token, data.model, data.prop, data.action) = NoName
             THEN /\ pc' = "prepare"
                  /\ UNCHANGED <<raised, errs>>
             ELSE Abort(authorize(token, data.model, data.prop, data.action), data)
    /\ UNCHANGED <<stop_on_error, token, input, seen, cur, group, ngroups, store, changelog,
                   out, fresh>>
    /\ UNCHANGED call_vars

PrepareData ==
    /\ pc = "prepare"
    /\ LET data == cur[1]
           payload == data.payload[1]
       IN IF data.error # NoName
          THEN /\ pc' = "read"
               /\ UNCHANGED <<cur, raised, errs>>
          ELSE IF payload.load = "ok"
          THEN /\ cur' = Some([data EXCEPT !.given = Some(Load(payload))])
               /\ pc' = "read"
               /\ UNCHANGED <<raised, errs>>
          ELSE IF report_error(prepare_data_stop_on_error)
          THEN /\ Abort(payload.load, data)
               /\ UNCHANGED cur
          ELSE /\ pc' = "read"
               /\ errs' = Append(errs, Err(payload.load, data))
               /\ UNCHANGED <<cur, raised>>
    /\ UNCHANGED <<stop_on_error, token, input, seen, group, ngroups, store, changelog, out,
                   log, fresh>>
    /\ UNCHANGED call_vars

ReadExistingData ==
    /\ pc = "read"
    /\ LET data == cur[1]
       IN IF data.action = INSERT
          THEN /\ pc' = "validate"
               /\ UNCHANGED <<cur, log, raised, errs>>
          ELSE IF data.given = None
          THEN /\ Abort("TypeError", data)
               /\ UNCHANGED <<cur, log>>
          ELSE IF data.given[1].where = None
          THEN /\ Abort("KeyError", data)
               /\ UNCHANGED <<cur, log>>
          ELSE
            LET given == data.given[1]
                found == getone(store, given.where[1].value)
                byid == data.action = UPSERT \/ _has_id_in_where(given)
                read == Append(log, Event("read", data, NoName))
            IN /\ log' = IF ~byid /\ found = {}
                         THEN Append(read, Event("drop", data, NoName))
                         ELSE read
               /\ IF byid
                  THEN IF found # {}
                       THEN /\ \E row \in found : cur' = Some([data EXCEPT !.saved = Some(row)])
                            /\ pc' = "validate"
                            /\ UNCHANGED <<raised, errs>>
                       ELSE IF data.action # UPSERT
                       THEN /\ cur' = Some([data EXCEPT !.error = "ItemDoesNotExist"])
                            /\ IF report_error(read_existing_data_stop_on_error)
                               THEN Abort("ItemDoesNotExist", data)
                               ELSE /\ pc' = "validate"
                                    /\ errs' = Append(errs, Err("ItemDoesNotExist", data))
                                    /\ UNCHANGED raised
                       ELSE /\ pc' = "validate"
                            /\ UNCHANGED <<cur, raised, errs>>
                  ELSE IF found # {}
                       THEN /\ \E row \in found : cur' = Some([data EXCEPT !.saved = Some(row)])
                            /\ pc' = "validate"
                            /\ UNCHANGED <<raised, errs>>
                       ELSE /\ cur' = None
                            /\ pc' = "next"
                            /\ UNCHANGED <<raised, errs>>
    /\ UNCHANGED <<stop_on_error, token, input, seen, group, ngroups, store, changelog, out,
                   fresh>>
    /\ UNCHANGED call_vars

\* commands.complex_data_check: an UPDATE, PATCH or DELETE that gives a
\* _revision other than the saved row's is a conflict.
complex_data_check(data) ==
    IF /\ data.action \in {UPDATE, PATCH, DELETE}
       /\ data.given[1].revision # None
       /\ data.saved # None
       /\ data.given[1].revision[1] # data.saved[1].revision
    THEN "ConflictingValue"
    ELSE NoName

\* An INSERT may give a _revision.
ManagedRevision_never(data) == FALSE

\* validate_data's test for ManagedProperty: an INSERT that gives a _revision.
ManagedRevision(data) == data.action = INSERT /\ data.given[1].revision # None

\* A property may be written without a _revision.
MissingPropRevision_never(data) == FALSE

\* validate_data's test for NoItemRevision: an UPDATE or PATCH of a property
\* that gives no _revision.
MissingPropRevision(data) ==
    /\ data.prop # NoName
    /\ data.action \in {UPDATE, PATCH}
    /\ data.given[1].revision = None

\* The exception validate_data raises for an item, or NoName.
validate_error(data, tok) ==
    IF data.error # NoName THEN NoName
    ELSE IF data.given = None THEN "TypeError"
    ELSE LET given == data.given[1]
         IN IF given.id # None /\ ~check_scope(tok, "set_meta_fields")
            THEN "InsufficientScopeError"
            ELSE IF ManagedRevision(data)
            THEN "ManagedProperty"
            ELSE IF MissingPropRevision(data)
            THEN "NoItemRevision"
            ELSE complex_data_check(data)

ValidateData ==
    /\ pc = "validate"
    /\ LET data == cur[1]
           e == validate_error(data, token)
       IN IF e # NoName
          THEN Abort(e, data)
          ELSE /\ pc' = "patch"
               /\ UNCHANGED <<raised, errs>>
    /\ UNCHANGED <<stop_on_error, token, input, seen, cur, group, ngroups, store, changelog,
                   out, log, fresh>>
    /\ UNCHANGED call_vars

PreparePatch ==
    /\ pc = "patch"
    /\ LET data == cur[1]
       IN IF data.given = None
          THEN /\ Abort("AttributeError", data)
               /\ UNCHANGED <<cur, fresh>>
          ELSE LET patch == prepare_patch(data, fresh)
               IN /\ cur' = Some([data EXCEPT !.patch = Some(patch)])
                  /\ fresh' = fresh + FreshUsed(data, patch)
                  /\ pc' = "dispatch"
                  /\ UNCHANGED <<raised, errs>>
    /\ UNCHANGED <<stop_on_error, token, input, seen, group, ngroups, store, changelog, out, log>>
    /\ UNCHANGED call_vars

Insert ==
    /\ pc = "dispatch"
    /\ Cmd(cur[1]) = "insert"
    /\ LET data == cur[1]
       IN /\ store' = store \cup {before_write(data)}
          /\ log' = Append(log, Event("write", data, "insert"))
    /\ pc' = "changelog"
    /\ UNCHANGED <<stop_on_error, token, input, seen, cur, group, ngroups, changelog, out,
                   errs, raised, fresh>>
    /\ UNCHANGED call_vars

\* The rows update_one and delete_one match: the saved id at the saved revision.
Matched(table, data) ==
    {row \in table : row.id = data.saved[1].id /\ row.revision = data.saved[1].revision}

Update ==
    /\ pc = "dispatch"
    /\ Cmd(cur[1]) = "update"
    /\ LET data == cur[1]
       IN IF data.saved = None
          THEN /\ Abort("TypeError", data)
               /\ UNCHANGED <<store, log>>
          ELSE /\ log' = Append(log, Event("write", data, "update"))
               /\ IF Matched(store, data) = {}
                  THEN /\ Abort("ItemDoesNotExist", data)
                       /\ UNCHANGED store
                  ELSE /\ \E row \in Matched(store, data) :
                            store' = (store \ {row}) \cup {SetRow(row, before_write(data))}
                       /\ pc' = "changelog"
                       /\ UNCHANGED <<raised, errs>>
    /\ UNCHANGED <<stop_on_error, token, input, seen, cur, group, ngroups, changelog, out, fresh>>
    /\ UNCHANGED call_vars

Delete ==
    /\ pc = "dispatch"
    /\ Cmd(cur[1]) = "delete"
    /\ LET data == cur[1]
       IN IF data.saved = None
          THEN /\ Abort("TypeError", data)
               /\ UNCHANGED <<store, log>>
          ELSE /\ log' = Append(log, Event("write", data, "delete"))
               /\ IF Matched(store, data) = {}
                  THEN /\ Abort("ItemDoesNotExist", data)
                       /\ UNCHANGED store
                  ELSE /\ \E row \in Matched(store, data) : store' = store \ {row}
                       /\ pc' = "changelog"
                       /\ UNCHANGED <<raised, errs>>
    /\ UNCHANGED <<stop_on_error, token, input, seen, cur, group, ngroups, changelog, out, fresh>>
    /\ UNCHANGED call_vars

\* The changelog entry of an item.
ChangelogEntry(data) == [idx |-> data.idx, action |-> data.action, patch |-> data.patch[1]]

\* A changelog kept newest entry first.
create_changelog_entry_prepend(entries, data) == <<ChangelogEntry(data)>> \o entries

\* commands.create_changelog_entry on one item: its entry goes to the end of
\* the changelog.
create_changelog_entry(entries, data) == Append(entries, ChangelogEntry(data))

\* commands.create_changelog_entry: one entry for the item that was written.
CreateChangelogEntry ==
    /\ pc = "changelog"
    /\ LET data == cur[1]
       IN /\ changelog' = create_changelog_entry(changelog, data)
          /\ log' = Append(log, Event("changelog", data, NoName))
    /\ pc' = "emit"
    /\ UNCHANGED <<stop_on_error, token, input, seen, cur, group, ngroups, store, out, errs,
                   raised, fresh>>
    /\ UNCHANGED call_vars

\* push_stream yields the item to its consumer.
Emit ==
    /\ pc = "emit"
    /\ out' = Append(out, cur[1])
    /\ log' = Append(log, Event("emit", cur[1], NoName))
    /\ cur' = None
    /\ pc' = "next"
    /\ UNCHANGED <<stop_on_error, token, input, seen, group, ngroups, store, changelog, errs,
                   raised, fresh>>
    /\ UNCHANGED call_vars

\* error.status_code of the errors an item can carry.
status_code(error) ==
    CASE error \in {"ItemDoesNotExist", "ModelNotFound"} -> 404
      [] error \in AuthErrors -> 403
      [] OTHER -> 400

\* The truth value of data.patch.
HasPatch(data) == data.patch # None /\ PatchNonEmpty(data.patch[1])

\* _get_simple_response: the body made for one item. vals holds the entries
\* whose key does not start with "_"; meta the entries whose key does.
_get_simple_response(data) ==
    LET vals == IF HasPatch(data) THEN data.patch[1].vals ELSE EmptyDict
        id == IF HasPatch(data) /\ data.patch[1].id # None THEN data.patch[1].id
              ELSE IF data.saved # None THEN Some(data.saved[1].id)
              ELSE None
        revision == IF HasPatch(data) /\ data.patch[1].revision # None
                    THEN data.patch[1].revision
                    ELSE IF data.saved # None THEN Some(data.saved[1].revision)
                    ELSE None
        type == IF data.action # NoName /\ data.model # NoName
                THEN Some(model_type(data.model)) ELSE None
        errors == IF data.error # NoName THEN Some(<<data.error>>) ELSE None
        meta == [k \in {"_id", "_revision", "_type", "_errors"} |->
                   CASE k = "_id" -> id
                     [] k = "_revision" -> revision
                     [] k = "_type" -> type
                     [] k = "_errors" -> errors]
    IN [vals |-> vals, meta |-> [k \in {q \in DOMAIN meta : meta[q] # None} |-> meta[k][1]]]

\* simple_response: whether the item created a row.
Created(data) == data.action = INSERT \/ (data.action = UPSERT /\ data.saved = None)

\* Every item without an error answered with 200.
SuccessStatus_ok(data) == 200

\* simple_response: the status code of an item without an error.
SuccessStatus(data) ==
    IF Created(data) THEN 201
    ELSE IF data.action = DELETE THEN 204
    ELSE 200

\* No item is counted as failed.
ErrorCount_none(results) == 0

\* errors, as _summary_response and _batch_response count them.
ErrorCount(results) == Cardinality({i \in 1..Len(results) : results[i].error # NoName})

\* A response: its status code and body, or the exception in its place.
Response(kind, raise, code, status, data) ==
    [kind |-> kind, raise |-> raise, status_code |-> code, status |-> status, data |-> data]

_summary_response(results) ==
    Response("summary", NoName, IF ErrorCount(results) > 0 THEN 400 ELSE 200,
             IF ErrorCount(results) > 0 THEN "error" ELSE "ok", <<>>)

_batch_response(results) ==
    Response("batch", NoName, IF ErrorCount(results) > 0 THEN 400 ELSE 200,
             IF ErrorCount(results) > 0 THEN "error" ELSE "ok",
             [i \in 1..Len(results) |-> _get_simple_response(results[i])])

\* simple_response: takes two items at most and asserts there is one.
simple_response(results) ==
    LET two == SubSeq(results, 1, IF Len(results) < 2 THEN Len(results) ELSE 2)
        data == two[1]
    IN IF Len(two) # 1
       THEN Response("simple", "AssertionError", 0, NoName, <<>>)
       ELSE Response("simple", NoName,
                     IF data.error # NoName THEN status_code(data.error)
                     ELSE SuccessStatus(data),
                     NoName, <<_get_simple_response(data)>>)

\* push builds the response from what push_stream yielded: the summary, the
\* batch or the simple response. A request that is no batch has a body of one
\* item, or of the two that an unknown _op makes.
Respond ==
    /\ pc = "done"
    /\ response = NoResponse
    /\ \E kind \in {"summary", "batch", "simple"} :
         /\ kind = "simple" => Len(input) <= 2
         /\ response' = CASE kind = "summary" -> _summary_response(out)
                           [] kind = "batch" -> _batch_response(out)
                           [] kind = "simple" -> simple_response(out)
    /\ UNCHANGED <<stream_vars, patch_call, writers, auth_call, builder, request>>

Next ==
    \/ NextItem
    \/ EndOfStream
    \/ Authorize
    \/ PrepareData
    \/ ReadExistingData
    \/ ValidateData
    \/ PreparePatch
    \/ Insert
    \/ Update
    \/ Delete
    \/ CreateChangelogEntry
    \/ Emit
    \/ Respond

Spec == Init /\ [][Next]_vars

----------------------------------------------------------------------------
\* The request is cancelled while the pipeline runs

\* Where the pipeline is suspended and a cancellation can reach it: waiting
\* for the next line of the request, and waiting for the backend in the
\* changelog append, which has not taken effect yet.
SuspensionPoint == pc \in {"next", "changelog"}

\* The connection is closed: CancelledError is raised at the suspension and
\* leaves push_stream, which has no handler for it.
Cancel ==
    /\ SuspensionPoint
    /\ pc' = "cancelled"
    /\ raised' = "CancelledError"
    /\ UNCHANGED <<stop_on_error, token, input, seen, cur, group, ngroups, store, changelog,
                   out, log, errs, fresh>>
    /\ UNCHANGED call_vars

NextCancel ==
    \/ Next
    \/ Cancel

SpecCancel == Init /\ [][NextCancel]_vars

----------------------------------------------------------------------------
\* build_data_patch_for_write called on its own

\* The schemas it is called with: scalars (one internal), a nested object, an
\* array of objects.
PatchSchemas ==
    { Model("title" :> Scalar(Num(0)) @@ "p" :> Scalar(Null) @@ "_id" :> Scalar(Null)),
      Model("o" :> Object("foo" :> Scalar(Num(0)) @@ "bar" :> Scalar(Null))),
      Model("a" :> Array(Object("foo" :> Scalar(Null) @@ "bar" :> Scalar(Num(0))))) }

\* The values a scalar takes in the trees.
ScalarValues == {Null, Num(0), Num(1)}

\* The elements the arrays of the trees are made of.
Elements ==
    { Dict("foo" :> Num(1)), Dict("foo" :> Num(2)),
      Dict("foo" :> Num(1) @@ "bar" :> Num(0)), Dict(EmptyDict) }

SeqsUpTo(S, n) == UNION {[1..m -> S] : m \in 0..n}

RECURSIVE Trees(_)

\* The dicts over the properties of a Model or an Object that are not
\* internal, each property absent or holding a tree of its type.
DictsOver(dtype) ==
    UNION { { f \in [S -> UNION {Trees(dtype.properties[k]) : k \in S}] :
                \A k \in S : f[k] \in Trees(dtype.properties[k]) } :
            S \in SUBSET {k \in DOMAIN dtype.properties : ~IsInternal(k)} }

\* The value trees of a type.
Trees(dtype) ==
    CASE dtype.kind = "scalar" -> ScalarValues
      [] dtype.kind = "model" -> {Dict(f) : f \in DictsOver(dtype)}
      [] dtype.kind = "object" -> {Null} \cup {Dict(f) : f \in DictsOver(dtype)}
      [] dtype.kind = "array" -> {Null} \cup {List(q) : q \in SeqsUpTo(Elements, MaxArrayLen)}

InitPatch ==
    /\ response = NoResponse
    /\ request = NoRequest
    /\ stop_on_error = TRUE
    /\ token \in {tok \in Tokens : tok.client = DefaultAuthClient}
    /\ input = <<>>
    /\ seen = <<>>
    /\ pc = "next"
    /\ cur = None
    /\ group = None
    /\ ngroups = 0
    /\ store = InitialStore
    /\ changelog = <<>>
    /\ out = <<>>
    /\ log = <<>>
    /\ errs = <<>>
    /\ raised = NoName
    /\ fresh = FirstFresh
    /\ \E model \in PatchSchemas, fill \in BOOLEAN :
         \E given \in Trees(model), saved \in Trees(model) :
           patch_call = [dtype |-> model, given |-> given, saved |-> saved, fill |-> fill,
                         result |-> [t |-> "pending"]]
    /\ writers = NoWriters
    /\ auth_call = NoAuthCall
    /\ builder = NoBuilder

\* The call returns.
BuildPatch ==
    /\ patch_call.result.t = "pending"
    /\ patch_call' =
         [patch_call EXCEPT !.result =
            build_data_patch_for_write(patch_call.dtype, patch_call.given, patch_call.saved,
                                       patch_call.fill)]
    /\ UNCHANGED <<stream_vars, writers, auth_call, builder, response, request>>

NextPatch == BuildPatch

SpecPatch == InitPatch /\ [][NextPatch]_vars

----------------------------------------------------------------------------
\* Two requests on one table: each reads the row, prepares its patch and runs
\* its backend primitive, interleaved with the other at these three calls.

Writers == {1, 2}

\* No push_stream run in progress.
StreamIdle ==
    /\ stop_on_error = TRUE
    /\ token \in {tok \in Tokens : tok.client = "admin"}
    /\ input = <<>>
    /\ seen = <<>>
    /\ pc = "next"
    /\ cur = None
    /\ group = None
    /\ ngroups = 0
    /\ changelog = <<>>
    /\ out = <<>>
    /\ log = <<>>
    /\ errs = <<>>
    /\ raised = NoName

\* What the two requests send: an UPDATE, a PATCH that changes nothing and a
\* DELETE of row 1.
WriterPayloads ==
    {p \in Payloads : /\ p.type = <<"M">>
                      /\ p.load = "ok"
                      /\ p.where = Some(Where("eq", "_id", 1))
                      /\ p.revision = None}

\* A request about to read its row.
Writer(payload) ==
    [data |-> [dataitem_from_payload(payload, TRUE, 1).item[1]
                 EXCEPT !.given = Some(Load(payload))],
     at |-> "read", applied |-> FALSE, error |-> None]

InitWriters ==
    /\ response = NoResponse
    /\ request = NoRequest
    /\ StreamIdle
    /\ store = InitialStore
    /\ fresh = FirstFresh
    /\ patch_call = NoCall
    /\ auth_call = NoAuthCall
    /\ builder = NoBuilder
    /\ writers \in [Writers -> {Writer(p) : p \in WriterPayloads}]

\* read_existing_data of one request: the row by the id of its _where.
WriterRead ==
    \E w \in Writers :
      /\ writers[w].at = "read"
      /\ LET data == writers[w].data
             found == getone(store, data.given[1].where[1].value)
         IN IF found = {}
            THEN writers' = [writers EXCEPT ![w].at = "raised",
                                            ![w].error = Some([name |-> "ItemDoesNotExist",
                                                               stage |-> "read"])]
            ELSE \E row \in found :
                   writers' = [writers EXCEPT ![w].at = "patch",
                                              ![w].data.saved = Some(row)]
      /\ UNCHANGED <<stream_vars, patch_call, auth_call, builder, response, request>>

\* prepare_patch of one request.
WriterPreparePatch ==
    \E w \in Writers :
      /\ writers[w].at = "patch"
      /\ LET data == writers[w].data
             patch == prepare_patch(data, fresh)
         IN /\ writers' = [writers EXCEPT ![w].at = "write", ![w].data.patch = Some(patch)]
            /\ fresh' = fresh + FreshUsed(data, patch)
      /\ UNCHANGED <<stop_on_error, token, input, seen, pc, cur, group, ngroups, store,
                     changelog, out, log, errs, raised, patch_call, auth_call, builder, response, request>>

\* The update or delete primitive of one request: update_one or delete_one on
\* the saved id and revision, ItemDoesNotExist with both when nothing matched.
WriterWrite ==
    \E w \in Writers :
      /\ writers[w].at = "write"
      /\ LET data == writers[w].data
         IN IF Matched(store, data) = {}
            THEN /\ writers' = [writers EXCEPT
                                  ![w].at = "raised",
                                  ![w].error = Some([name |-> "ItemDoesNotExist",
                                                     stage |-> "write",
                                                     id |-> data.saved[1].id,
                                                     revision |-> data.saved[1].revision])]
                 /\ UNCHANGED store
            ELSE /\ \E row \in Matched(store, data) :
                      store' = IF Cmd(data) = "delete"
                               THEN store \ {row}
                               ELSE (store \ {row}) \cup {SetRow(row, before_write(data))}
                 /\ writers' = [writers EXCEPT ![w].at = "done", ![w].applied = TRUE]
      /\ UNCHANGED <<stop_on_error, token, input, seen, pc, cur, group, ngroups, changelog,
                     out, log, errs, raised, fresh, patch_call, auth_call, builder, response, request>>

NextWriters ==
    \/ WriterRead
    \/ WriterPreparePatch
    \/ WriterWrite

SpecWriters == InitWriters /\ [][NextWriters]_vars

----------------------------------------------------------------------------
\* authorized and check_generated_scopes called on their own

\* The action the calls are about.
AuthAction == "getone"

\* The nodes the calls are about: property p of model M, hidden or not, the
\* model M, and its namespace ns, whose parent is the root namespace "";
\* each at every access level.
AuthNodes ==
    LET levels == {AccessOrder[i] : i \in 1..Len(AccessOrder)}
    IN {Node("property", "M_p", "M", "ns", {""}, a, h) : a \in levels, h \in BOOLEAN}
         \cup {Node("model", "M", "M", "ns", {""}, a, FALSE) : a \in levels}
         \cup {Node("ns", "ns", NoName, NoName, {""}, a, FALSE) : a \in levels}

\* The tokens: the default client or another one, holding any of the scopes
\* of the property, the model, the namespace and the root namespace.
AuthTokens ==
    {[client |-> c, scopes |-> S] :
       c \in {DefaultAuthClient, "client"},
       S \in SUBSET {ScopeName(n, AuthAction) : n \in {"M_p", "M", "ns", ""}}}

InitAuth ==
    /\ response = NoResponse
    /\ request = NoRequest
    /\ StreamIdle
    /\ store = InitialStore
    /\ fresh = FirstFresh
    /\ patch_call = NoCall
    /\ writers = NoWriters
    /\ builder = NoBuilder
    /\ \/ \E node \in AuthNodes, tok \in AuthTokens, throw \in BOOLEAN :
            auth_call = [fn |-> "authorized", node |-> node, tok |-> tok, throw |-> throw,
                         result |-> "pending"]
       \/ \E node \in {n \in AuthNodes : n.kind # "ns" /\ n.access = "protected"},
             tok \in {t \in AuthTokens : t.client = "client"} :
            auth_call = [fn |-> "check_generated_scopes", node |-> node, tok |-> tok,
                         throw |-> TRUE, result |-> "pending"]

\* authorized returns or raises.
Authorized ==
    /\ auth_call.fn = "authorized"
    /\ auth_call.result = "pending"
    /\ auth_call' = [auth_call EXCEPT !.result =
                       authorized_node(auth_call.tok, auth_call.node, AuthAction,
                                       auth_call.throw)]
    /\ UNCHANGED <<stream_vars, patch_call, writers, builder, response, request>>

\* check_generated_scopes returns or raises.
CheckGeneratedScopes ==
    /\ auth_call.fn = "check_generated_scopes"
    /\ auth_call.result = "pending"
    /\ LET node == auth_call.node
       IN auth_call' = [auth_call EXCEPT !.result =
                          check_generated_scopes(auth_call.tok, node.model, AuthAction,
                                                 IF node.kind = "property" THEN node.own
                                                 ELSE NoName,
                                                 node.hidden)]
    /\ UNCHANGED <<stream_vars, patch_call, writers, builder, response, request>>

NextAuth ==
    \/ Authorized
    \/ CheckGeneratedScopes

SpecAuth == InitAuth /\ [][NextAuth]_vars

----------------------------------------------------------------------------
\* The SQL query builder: select and build on one environment

\* Most calls made on one environment.
MaxCalls == 3

\* The properties of env.model in declaration order, the primary key first,
\* the reference properties last.
QueryProps == <<"_id", "a", "b", "country", "region", "capital">>

\* env.model
QueryModel == "city"

\* The Ref dtypes of env.model: the model each refers to and the properties of
\* that model it refers by (dtype.model, dtype.refprops).
Refs ==
    [country |-> [model |-> "country", refprops |-> <<"_id">>],
     region |-> [model |-> "region", refprops |-> <<"_id">>],
     capital |-> [model |-> "town", refprops |-> <<"name">>]]

\* model.external.pkeys of the models referred to; region has a composite key.
ExternalPkeys ==
    [country |-> <<"code">>, region |-> <<"code", "name">>, town |-> <<"code">>]

\* dtype.model.properties of a model referred to; continent is a reference.
TargetProps == {"_id", "code", "name", "continent"}

\* model.external.pkeys
PrimaryKeys == <<"a">>

\* Arguments of a select expression: a name, and a function call.
BindArg(name) == [a |-> "bind", name |-> name]

ExprArg(fn, name) == [a |-> "expr", fn |-> fn, name |-> name]

PropArg(name) == [a |-> "prop", name |-> name]

\* A plain string operand (the deprecated form of a Bind).
StrArg(name) == [a |-> "str", name |-> name]

\* A dotted path field.attr: getattr(bind(field), bind(attr)).
GetattrArg(field, attr) ==
    [a |-> "getattr", name |-> field \o "." \o attr, field |-> field, attr |-> attr]

\* A path of two hops field.mid.attr: getattr(getattr(field, mid), attr).
PathArg(field, mid, attr) ==
    [a |-> "path", name |-> field \o "." \o mid \o "." \o attr,
     field |-> field, mid |-> mid, attr |-> attr]

\* The select lists a caller gives: none, a property, an unknown property, a
\* property with count(), len() of an unknown name.
SelectLists ==
    { <<>>,
      <<BindArg("a")>>,
      <<BindArg("zz")>>,
      <<BindArg("b"), ExprArg("count", NoName)>>,
      <<ExprArg("len", "zz")>> }

Selected(item, prop, prep) == [item |-> item, prop |-> prop, prep |-> prep]

\* SqlQueryBuilder.init
NewEnv ==
    [selected |-> None, columns |-> <<>>, resolved |-> EmptyDict,
     joins |-> EmptyDict, from_ |-> <<>>, nobj |-> 0]

\* A resolver's outcome: the environment it leaves, its value, the exception.
Outcome(e, result, raise) == [env |-> e, result |-> result, raise |-> raise]

\* SqlQueryBuilder.add_column: the environment after it, and the index.
add_column(e, column) ==
    IF \E i \in 1..Len(e.columns) : e.columns[i] = column
    THEN e
    ELSE [e EXCEPT !.columns = Append(@, column)]

ColumnIndex(e, column) ==
    (CHOOSE i \in 1..Len(e.columns) : e.columns[i] = column) - 1

\* select(env, value): a resolved value such as count().
select_object(e, value) ==
    LET e2 == add_column(e, value)
    IN Outcome(e2, Selected(Some(ColumnIndex(e2, value)), NoName, None), NoName)

\* select(env, dtype: DataType)
select_DataType(e, place) ==
    LET e2 == add_column(e, place)
    IN Outcome(e2, Selected(Some(ColumnIndex(e2, place)), place, None), NoName)

RECURSIVE select_Property(_, _)

\* select(env, dtype: PrimaryKey) with one primary key.
select_PrimaryKey(e, place) ==
    LET r == select_Property(e, PrimaryKeys[1])
    IN Outcome(r.env, Selected(None, place, Some(r.result)), NoName)

\* select(env, prop: Property): resolved once for a place.
select_Property(e, place) ==
    IF place \in DOMAIN e.resolved
    THEN Outcome(e, e.resolved[place], NoName)
    ELSE LET r == IF place = "_id" THEN select_PrimaryKey(e, place)
                  ELSE select_DataType(e, place)
         IN Outcome([r.env EXCEPT !.resolved = (place :> r.result) @@ @], r.result, NoName)

\* _get_property_for_select and select(env, item: Bind)
select_Bind(e, name, search) ==
    IF (\E i \in 1..Len(QueryProps) : QueryProps[i] = name) /\ name \in search
    THEN select_Property(e, name)
    ELSE Outcome(e, None, "PropertyNotFound")

\* ForeignProperty.__init__(fpr, left, right): the object, or the exception
\* the constructor ends with. In the else branch self.name is read before it
\* was ever assigned.
ForeignProperty(fpr, left, right) ==
    IF fpr = None
    THEN [raise |-> NoName, name |-> left.place, left |-> left, right |-> right,
          chain |-> <<[name |-> left.place, left |-> left, right |-> right]>>]
    ELSE [raise |-> "AttributeError", name |-> NoName, left |-> left, right |-> right,
          chain |-> <<>>]

\* The Ref dtype of a reference property of a model, and the dtype of a property.
RefDtype(model, place, refprops) == [model |-> model, place |-> place, refprops |-> refprops]

Dtype(model, place) == [model |-> model, place |-> place]

\* getattr(env, field: Bind, attr: Bind), then getattr(env, dtype: Ref, attr: Bind);
\* a dtype that is no Ref has no resolver and ends in default_resolver.
getattr_(field, attr) ==
    LET failed(name) == [raise |-> name, name |-> NoName, left |-> None, right |-> None,
                         chain |-> <<>>]
    IN IF ~\E i \in 1..Len(QueryProps) : QueryProps[i] = field
       THEN failed("KeyError")
       ELSE IF field \notin DOMAIN Refs
       THEN failed("UnknownExpr")
       ELSE IF attr \notin TargetProps
       THEN failed("KeyError")
       ELSE ForeignProperty(None,
                            RefDtype(QueryModel, field, Refs[field].refprops),
                            Dtype(Refs[field].model, attr))

\* backend.get_column(table, prop)
Column(table, name) == <<table, name>>

RECURSIVE RightKeys(_, _, _)

\* SqlFrom.get_table: rpkeys, the key columns of the right table for the
\* refprops from the i-th on.
RightKeys(rmodel, refprops, i) ==
    IF i > Len(refprops) THEN <<>>
    ELSE (IF refprops[i] = "_id"
          THEN [k \in 1..Len(ExternalPkeys[rmodel]) |->
                  Column(rmodel, ExternalPkeys[rmodel][k])]
          ELSE <<Column(rmodel, refprops[i])>>)
         \o RightKeys(rmodel, refprops, i + 1)

\* The assertion on the numbers of key columns left out.
KeysMatch_unchecked(lrkeys, rpkeys) == TRUE

\* SqlFrom.get_table: assert len(lrkeys) == len(rpkeys)
KeysMatch(lrkeys, rpkeys) == Len(lrkeys) = Len(rpkeys)

\* SqlFrom.get_table: zip(lrkeys, rpkeys)
Zip(lrkeys, rpkeys) ==
    LET n == IF Len(lrkeys) < Len(rpkeys) THEN Len(lrkeys) ELSE Len(rpkeys)
    IN [k \in 1..n |-> <<lrkeys[k], rpkeys[k]>>]

RECURSIVE get_table(_, _, _)

\* SqlFrom.get_table(prop) from the i-th segment of prop.chain on: a segment
\* whose name is joined already is skipped.
get_table(e, prop, i) ==
    IF i > Len(prop.chain)
    THEN Outcome(e, Some(prop.chain[Len(prop.chain)].right.model), NoName)
    ELSE LET fpr == prop.chain[i]
             lrkeys == <<Column(fpr.left.model, fpr.left.place)>>
             rmodel == fpr.right.model
             rpkeys == RightKeys(rmodel, fpr.left.refprops, 1)
         IN IF fpr.name \in DOMAIN e.joins
            THEN get_table(e, prop, i + 1)
            ELSE IF ~KeysMatch(lrkeys, rpkeys)
            THEN Outcome(e, None, "AssertionError")
            ELSE get_table([e EXCEPT !.joins = (fpr.name :> [table |-> rmodel,
                                                            condition |-> Zip(lrkeys, rpkeys)])
                                               @@ @,
                                     !.from_ = Append(@, fpr.name)],
                           prop, i + 1)

\* A compiled predicate: column op value.
Predicate(op, column, value) == [op |-> op, column |-> column, value |-> value]

\* The filter of a field operand by the resolver registered for its type and
\* the type of the value: scalar is the operator of the (field, object)
\* resolver; member that of the (field, list) resolver where one is registered.
Compare(e, field, value, scalar, member) ==
    IF field.a \in {"str", "bind"}
    THEN IF ~\E i \in 1..Len(QueryProps) : QueryProps[i] = field.name
         THEN Outcome(e, None, "KeyError")
         ELSE Outcome(e, Some(Predicate(IF value.t = "list" THEN member[field.a] ELSE scalar,
                                        Column(QueryModel, field.name), value)),
                      NoName)
    ELSE LET fpr == getattr_(field.field, field.attr)
             t == get_table(e, fpr, 1)
         IN IF fpr.raise # NoName THEN Outcome(e, None, fpr.raise)
            ELSE IF t.raise # NoName THEN t
            ELSE Outcome(t.env,
                         Some(Predicate(IF value.t = "list" THEN member.fpr ELSE scalar,
                                        Column(t.result[1], fpr.right.place), value)),
                         NoName)

\* eq: no resolver is registered for (str, list) or (Bind, list), so a list
\* value goes to the (str, object) and (Bind, object) resolvers.
eq(e, field, value) ==
    Compare(e, field, value, "==", [str |-> "==", bind |-> "==", fpr |-> "in"])

\* ne
ne(e, field, value) ==
    Compare(e, field, value, "!=", [str |-> "not in", bind |-> "not in", fpr |-> "not in"])

\* str(k) of an argument.
KeyOf(arg) == IF arg.a = "expr" THEN arg.fn \o "()" ELSE arg.name

\* expr.resolve(env) on one argument: the exception its resolver raises, or
\* NoName; len() looks its name up in env.model.flatprops.
ResolveArg(arg) ==
    IF arg.a = "expr" /\ arg.fn = "len"
       /\ ~\E i \in 1..Len(QueryProps) : QueryProps[i] = arg.name
    THEN "KeyError"
    ELSE IF arg.a = "getattr"
    THEN getattr_(arg.field, arg.attr).raise
    ELSE IF arg.a = "path"
    THEN IF getattr_(arg.field, arg.mid).raise # NoName
         THEN getattr_(arg.field, arg.mid).raise
         ELSE "UnknownExpr"
    ELSE NoName

\* The first exception expr.resolve(env) raises on the arguments, or NoName.
ResolveArgs(args) ==
    IF \E i \in 1..Len(args) : ResolveArg(args[i]) # NoName
    THEN ResolveArg(args[CHOOSE i \in 1..Len(args) :
                            /\ ResolveArg(args[i]) # NoName
                            /\ \A j \in 1..(i - 1) : ResolveArg(args[j]) = NoName])
    ELSE NoName

RECURSIVE select_each(_, _, _, _)

\* The loops of select(env, expr): env.selected[key] = env.call('select', arg)
\* for the arguments from the i-th on, until one raises.
select_each(e, args, i, search) ==
    IF i > Len(args) THEN Outcome(e, None, NoName)
    ELSE LET arg == args[i]
             r == CASE arg.a = "bind" -> select_Bind(e, arg.name, search)
                    [] arg.a = "prop" -> select_Property(e, arg.name)
                    [] arg.a = "expr" -> select_object(e, KeyOf(arg))
                    [] arg.a = "getattr" ->
                         select_object(e, [fpr |-> getattr_(arg.field, arg.attr),
                                           oid |-> e.nobj - Len(args) + i])
         IN IF r.raise # NoName THEN r
            ELSE select_each([r.env EXCEPT !.selected =
                                Some((KeyOf(arg) :> r.result) @@ @[1])],
                             args, i + 1, search)

\* The properties the default select list takes: those authorized for getall.
DefaultSelect(getall) ==
    LET idx == {i \in 1..Len(QueryProps) : QueryProps[i] \in getall}
        nth(n) == CHOOSE i \in idx : Cardinality({j \in idx : j < i}) = n - 1
    IN [n \in 1..Cardinality(idx) |-> PropArg(QueryProps[nth(n)])]

\* select(env, expr: Expr)
select_Expr(e, args, getall, search) ==
    IF ResolveArgs(args) # NoName THEN Outcome(e, None, ResolveArgs(args))
    ELSE IF e.selected # None THEN Outcome(e, None, "RuntimeError: already called")
    ELSE LET r == select_each([e EXCEPT !.selected = Some(EmptyDict),
                                        !.nobj = @ + Len(args)],
                              IF args # <<>> THEN args ELSE DefaultSelect(getall),
                              1, search)
         IN IF r.raise # NoName THEN r
            ELSE IF r.env.columns = <<>>
            THEN Outcome(r.env, None, "RuntimeError: nothing selected")
            ELSE r

\* SqlQueryBuilder.build(where): the default select when none was made, then
\* the query over the columns.
build(e, where, getall, search) ==
    LET r == IF e.selected = None THEN select_Expr(e, <<>>, getall, search)
             ELSE Outcome(e, None, NoName)
    IN IF r.raise # NoName THEN r
       ELSE Outcome(r.env, Some([columns |-> r.env.columns, where |-> where]), NoName)

InitBuilder ==
    /\ response = NoResponse
    /\ request = NoRequest
    /\ StreamIdle
    /\ store = InitialStore
    /\ fresh = FirstFresh
    /\ patch_call = NoCall
    /\ writers = NoWriters
    /\ auth_call = NoAuthCall
    /\ \E getall \in {{}, {"a"}, {"_id", "a"}, {"_id", "a", "b"}}, search \in {{"a"}, {"a", "b"}} :
         builder = [env |-> NewEnv, getall |-> getall, search |-> search, calls |-> <<>>]

\* A call on the environment, as the calls keep it: what was called, the
\* environment before and after, the value returned and the exception.
Called(op, args, r) ==
    [builder EXCEPT !.env = r.env,
                    !.calls = Append(@, [op |-> op, args |-> args, before |-> builder.env,
                                         after |-> r.env, result |-> r.result,
                                         raise |-> r.raise])]

\* env.call('select', Expr('select', ...))
Select ==
    /\ Len(builder.calls) < MaxCalls
    /\ \E args \in SelectLists :
         builder' = Called("select", args,
                           select_Expr(builder.env, args, builder.getall, builder.search))
    /\ UNCHANGED <<stream_vars, patch_call, writers, auth_call, response, request>>

\* env.build(where)
Build ==
    /\ Len(builder.calls) < MaxCalls
    /\ \E where \in {None, Some("a = 1")} :
         builder' = Called("build", <<>>,
                           build(builder.env, where, builder.getall, builder.search))
    /\ UNCHANGED <<stream_vars, patch_call, writers, auth_call, response, request>>

NextBuilder ==
    \/ Select
    \/ Build

SpecBuilder == InitBuilder /\ [][NextBuilder]_vars

----------------------------------------------------------------------------
\* The SQL query builder: reference paths, joins and filters

\* The select lists over reference paths: country.name once and twice, and
\* the two-hop path country.continent.name.
RefSelectLists ==
    { <<GetattrArg("country", "name")>>,
      <<GetattrArg("country", "name"), GetattrArg("country", "name")>>,
      <<PathArg("country", "continent", "name")>> }

\* The field operands of a filter: a Bind, a plain string, and reference
\* paths through a single key, a composite key and a plain property.
FilterFields ==
    { BindArg("a"), StrArg("a"), GetattrArg("country", "name"),
      GetattrArg("region", "name"), GetattrArg("capital", "name") }

\* The values of a filter: a number and a list.
FilterValues == {Num(1), List(<<Num(1), Num(2)>>)}

\* The reference a chain is built on, and the references built on it.
ChainHeads ==
    { None,
      Some(ForeignProperty(None, RefDtype(QueryModel, "country", <<"_id">>),
                           Dtype("country", "continent"))) }

InitJoins ==
    /\ response = NoResponse
    /\ request = NoRequest
    /\ StreamIdle
    /\ store = InitialStore
    /\ fresh = FirstFresh
    /\ patch_call = NoCall
    /\ writers = NoWriters
    /\ auth_call = NoAuthCall
    /\ builder = [env |-> NewEnv, getall |-> {"_id", "a", "b"}, search |-> {"a", "b"},
                  calls |-> <<>>]

\* env.call('select', Expr('select', ...)) over reference paths
SelectRef ==
    /\ Len(builder.calls) < MaxCalls
    /\ \E args \in RefSelectLists :
         builder' = Called("select", args,
                           select_Expr(builder.env, args, builder.getall, builder.search))
    /\ UNCHANGED <<stream_vars, patch_call, writers, auth_call, response, request>>

\* env.resolve of an eq or ne filter
Filter ==
    /\ Len(builder.calls) < MaxCalls
    /\ \E fn \in {"eq", "ne"}, field \in FilterFields, value \in FilterValues :
         builder' = Called(fn, <<field, value>>,
                           IF fn = "eq" THEN eq(builder.env, field, value)
                           ELSE ne(builder.env, field, value))
    /\ UNCHANGED <<stream_vars, patch_call, writers, auth_call, response, request>>

\* ForeignProperty(fpr, left, right)
Construct ==
    /\ Len(builder.calls) < MaxCalls
    /\ \E fpr \in ChainHeads :
         LET left == IF fpr = None THEN RefDtype(QueryModel, "country", <<"_id">>)
                     ELSE RefDtype("country", "continent", <<"_id">>)
             right == IF fpr = None THEN Dtype("country", "continent")
                      ELSE Dtype("continent", "name")
             new == ForeignProperty(fpr, left, right)
         IN builder' = Called("ForeignProperty", <<fpr, left, right>>,
                              Outcome(builder.env, Some(new), new.raise))
    /\ UNCHANGED <<stream_vars, patch_call, writers, auth_call, response, request>>

NextJoins ==
    \/ SelectRef
    \/ Filter
    \/ Construct
    \/ Build

SpecJoins == InitJoins /\ [][NextJoins]_vars

----------------------------------------------------------------------------
\* Reading the body of a request that is no stream

\* A request body: its content type, whether it parses as JSON, the payloads
\* under _data when it has that key, else its _op (NoName when it has none),
\* and the primary key of the URL.
Body(ct, json, batch, data, op, pk) ==
    [ct |-> ct, json |-> json, batch |-> batch, data |-> data, op |-> op, pk |-> pk]

\* The payloads a body lists under _data.
BatchPayloads ==
    {p \in Payloads : p.op \in {INSERT, "wipe"} /\ p.id = None /\ p.revision = None
                      /\ p.load = "ok"}

RequestBodies ==
    {Body("application/json", TRUE, FALSE, <<>>, op, pk) :
       op \in {NoName, "wipe"} \cup Actions, pk \in {None, Some(1)}}
    \cup {Body("application/json", TRUE, TRUE, data, NoName, None) :
            data \in {<<>>} \cup {<<p>> : p \in BatchPayloads}
                       \cup {<<p, q>> : p \in BatchPayloads, q \in BatchPayloads}}
    \cup {Body("text/plain", TRUE, FALSE, <<>>, NoName, None),
          Body("application/json", FALSE, FALSE, <<>>, NoName, None)}

\* _add_where on a body without _where: the filter the URL's key gives.
_add_where(pk) == IF pk # None THEN Some(Where("eq", "_id", pk[1])) ELSE None

\* What a generator of DataItems gave: the items yielded, and the exception
\* it ended with or NoName.
Yielded(items, raise) == [items |-> items, raise |-> raise]

RECURSIVE ReadBatch(_, _, _)

\* The loop over payload['_data'] from the i-th payload on.
ReadBatch(data, i, stop) ==
    IF i > Len(data) THEN Yielded(<<>>, NoName)
    ELSE LET r == dataitem_from_payload(data[i], stop, i)
             rest == ReadBatch(data, i + 1, stop)
         IN IF r.raise # NoName THEN Yielded(<<>>, r.raise)
            ELSE Yielded(<<r.item[1]>> \o rest.items, rest.raise)

\* _read_request_body(context, request, scope, action, params, stop_on_error)
\* for the model or property the URL names.
_read_request_body(model, prop, action, body, stop) ==
    LET backend == IF prop # NoName THEN PropBackend(prop) ELSE ModelBackend(model)
        type == IF prop # NoName THEN <<model, prop>> ELSE <<model>>
        payload(op) == Payload(type, op, _add_where(body.pk), None, None, EmptyDict, "ok")
    IN IF action = DELETE
       THEN Yielded(<<DataItem(1, model, prop, FALSE, backend, DELETE,
                               Some(payload(NoName)), NoName)>>, NoName)
       ELSE IF body.ct # "application/json" THEN Yielded(<<>>, "UnknownContentType")
       ELSE IF ~body.json THEN Yielded(<<>>, "JSONError")
       ELSE IF body.batch THEN ReadBatch(body.data, 1, stop)
       ELSE IF body.op # NoName /\ _action_from_op(payload(body.op)) = "UnknownAction"
       THEN IF report_error(stop) THEN Yielded(<<>>, "UnknownAction")
            ELSE Yielded(<<DataItem(1, model, prop, FALSE, backend, NoName,
                                    Some(payload(body.op)), "UnknownAction"),
                           DataItem(2, model, prop, FALSE, backend, "UnknownAction",
                                    Some(payload(body.op)), NoName)>>, NoName)
       ELSE Yielded(<<DataItem(1, model, prop, FALSE, backend,
                               IF body.op # NoName THEN _action_from_op(payload(body.op))
                               ELSE action,
                               Some(payload(body.op)), NoName)>>, NoName)

InitRequest ==
    /\ response = NoResponse
    /\ StreamIdle
    /\ store = InitialStore
    /\ fresh = FirstFresh
    /\ patch_call = NoCall
    /\ writers = NoWriters
    /\ auth_call = NoAuthCall
    /\ builder = NoBuilder
    /\ \E action \in Actions, body \in RequestBodies, prop \in {NoName, "p"},
          stop \in BOOLEAN :
         request = [kind |-> "body", model |-> "M", prop |-> prop, action |-> action,
                    body |-> body, stop_on_error |-> stop, read |-> FALSE,
                    items |-> <<>>, raise |-> NoName]

\* The body is read to its end.
ReadRequestBody ==
    /\ request.kind = "body"
    /\ ~request.read
    /\ LET r == _read_request_body(request.model, request.prop, request.action,
                                   request.body, request.stop_on_error)
       IN request' = [request EXCEPT !.read = TRUE, !.items = r.items, !.raise = r.raise]
    /\ UNCHANGED <<stream_vars, patch_call, writers, auth_call, builder, response>>

NextRequest == ReadRequestBody

SpecRequest == InitRequest /\ [][NextRequest]_vars

----------------------------------------------------------------------------
\* Wipe requests

WIPE == "wipe"

\* The models of the manifest a wipe request can name, in the order the root
\* namespace lists them.
WipeModels == <<"M", "N">>

\* The tokens of wipe requests: any of the wipe scopes of the root namespace
\* and of the two models, with or without the delete scope.
WipeTokens ==
    {[client |-> "client", scopes |-> held] :
       held \in SUBSET {ScopeName("", WIPE), ScopeName("M", WIPE), ScopeName("N", WIPE),
                        ScopeName("", DELETE)}}

\* The table emptied before the scope is looked at.
wipe_delete_first(tok, model, tables) ==
    [tables |-> [tables EXCEPT ![model] = {}],
     raise |-> authorize(tok, model, NoName, WIPE),
     events |-> <<[ev |-> "delete", model |-> model], [ev |-> "authorize", model |-> model]>>]

\* wipe(context, model, backend: Mongo): authorize, then delete_many({}).
wipe(tok, model, tables) ==
    IF authorize(tok, model, NoName, WIPE) # NoName
    THEN [tables |-> tables, raise |-> authorize(tok, model, NoName, WIPE),
          events |-> <<[ev |-> "authorize", model |-> model]>>]
    ELSE [tables |-> [tables EXCEPT ![model] = {}], raise |-> NoName,
          events |-> <<[ev |-> "authorize", model |-> model],
                       [ev |-> "delete", model |-> model]>>]

InitWipe ==
    /\ response = NoResponse
    /\ StreamIdle
    /\ store = InitialStore
    /\ fresh = FirstFresh
    /\ patch_call = NoCall
    /\ writers = NoWriters
    /\ auth_call = NoAuthCall
    /\ builder = NoBuilder
    /\ \E tok \in WipeTokens, target \in {"", "M", "N"},
          rows \in [{"M", "N"} -> {{}, InitialStore}] :
         request = [kind |-> "wipe", token |-> tok, target |-> target, before |-> rows,
                    tables |-> rows, pending |-> None, log |-> <<>>, status_code |-> 0]

\* commands.wipe for the node of the URL: the models it is to wipe, the one
\* named or every model of the namespace.
WipeBegin ==
    /\ request.kind = "wipe"
    /\ request.pending = None
    /\ request' = [request EXCEPT !.pending =
                     Some(IF request.target = "" THEN WipeModels ELSE <<request.target>>)]
    /\ UNCHANGED <<stream_vars, patch_call, writers, auth_call, builder, response>>

\* The backend's wipe of the next model; an exception ends the request with
\* the status code of the error.
WipeModel ==
    /\ request.kind = "wipe"
    /\ request.pending # None
    /\ request.status_code = 0
    /\ request.pending[1] # <<>>
    /\ LET r == wipe(request.token, Head(request.pending[1]), request.tables)
       IN request' = [request EXCEPT !.tables = r.tables,
                                     !.log = @ \o r.events,
                                     !.pending = Some(Tail(@[1])),
                                     !.status_code = IF r.raise # NoName
                                                     THEN status_code(r.raise) ELSE 0]
    /\ UNCHANGED <<stream_vars, patch_call, writers, auth_call, builder, response>>

\* Every model is wiped: the request is answered.
WipeEnd ==
    /\ request.kind = "wipe"
    /\ request.pending = Some(<<>>)
    /\ request.status_code = 0
    /\ request' = [request EXCEPT !.status_code = 200]
    /\ UNCHANGED <<stream_vars, patch_call, writers, auth_call, builder, response>>

NextWipe ==
    \/ WipeBegin
    \/ WipeModel
    \/ WipeEnd

SpecWipe == InitWipe /\ [][NextWipe]_vars

----------------------------------------------------------------------------
\* Properties

LogIdx == 1..Len(log)

SeenIdx == 1..Len(seen)

OutIdx == 1..Len(out)

\* The grouping key of an item, read off its fields.
ItemKey(d) == <<d.model, d.prop, d.backend, d.action>>

IsBackendOp(e) == e.ev \in {"read", "write", "changelog"}

\* An item that push_stream does not run through the pipeline.
Unrouted(d) == d.model = NoName \/ d.action = NoName

\* A payload that is not an update by a general predicate.
ById(payload) ==
    \/ payload.op \notin {UPDATE, PATCH, DELETE}
    \/ /\ payload.where # None
       /\ payload.where[1].name = "eq"
       /\ payload.where[1].field = "_id"

\* C1: push_stream splits its input into maximal runs of consecutive items
\* with the same (model, prop, backend, action) key: two items are in one
\* group exactly when every item from the first to the second has the key of
\* the first, and groups are numbered in stream order.
C1_GroupsAreConsecutiveRuns ==
    /\ \A i, j \in SeenIdx :
         i <= j =>
           (seen[i].grp = seen[j].grp
              <=> \A k \in i..j : ItemKey(seen[k].data) = ItemKey(seen[i].data))
    /\ \A i, j \in SeenIdx : i <= j => seen[i].grp <= seen[j].grp
    /\ \A j \in LogIdx : log[j].grp = seen[log[j].idx].grp

\* Three items were processed whose first and third have the same key and
\* whose second has another: three groups.
C1_Witness ==
    /\ pc = "done"
    /\ Len(seen) = 3
    /\ Len(out) = 3
    /\ ItemKey(seen[1].data) = ItemKey(seen[3].data)
    /\ ItemKey(seen[1].data) # ItemKey(seen[2].data)
    /\ seen[3].grp = 3
    /\ \E j \in LogIdx : log[j].ev = "write" /\ log[j].idx = 3

\* C2: in a stream without an update by a general predicate, push_stream
\* yields exactly one item for every input item, in input order, whenever the
\* stream is not cut short by stop_on_error or by an authorization error.
C2_OneOutputPerInput ==
    (/\ \A i \in 1..Len(input) : ById(input[i])
     /\ \/ pc = "done"
        \/ pc = "raised" /\ ~stop_on_error /\ raised \notin AuthErrors)
    => /\ Len(out) = Len(input)
       /\ \A k \in OutIdx : out[k].idx = k

\* C3: in a fault-tolerant stream an item whose error is set is not touched
\* by a later stage (its patch stays unset, no backend read, write or
\* changelog append follows for it) and it goes on to the output: the stream
\* does not end in an exception while the item is in flight.
C3_ErrorItemPassesThrough ==
    ~stop_on_error =>
      /\ (cur # None /\ cur[1].error # NoName) =>
            /\ pc # "raised"
            /\ cur[1].patch = None
      /\ \A k \in OutIdx :
            out[k].error # NoName =>
              /\ out[k].patch = None
              /\ \A j \in LogIdx : log[j].idx = out[k].idx => ~IsBackendOp(log[j])

\* C4: with stop_on_error set the first item-level error ends the stream: no
\* backend read, write or changelog append happens after the failure, so no
\* later item is written.
C4_FirstErrorAborts ==
    (stop_on_error /\ errs # <<>>) =>
      \A j \in LogIdx : j > errs[1].at => ~IsBackendOp(log[j])

\* C5: with stop_on_error unset no user-input, validation or conflict error
\* leaves push_stream as an exception: only an authorization error may end
\* the stream.
C5_ErrorsStayOnItems ==
    ~stop_on_error => raised \in {NoName} \cup AuthErrors

\* C6: every group with model and action set is authorized exactly once, with
\* the group's action and with the property if the group has one, else the
\* model, and before any backend read, write or changelog append of the group.
C6_AuthorizeOncePerGroup ==
    \A i \in SeenIdx :
      LET d == seen[i].data
          g == seen[i].grp
          auths == {j \in LogIdx : log[j].ev = "authorize" /\ log[j].grp = g}
      IN IF Unrouted(d)
         THEN auths = {}
         ELSE /\ Cardinality(auths) <= 1
              /\ auths = {} => (g = ngroups /\ pc = "authorize")
              /\ \A j \in auths :
                   /\ log[j].action = d.action
                   /\ log[j].target = (IF d.prop # NoName THEN d.prop ELSE d.model)
              /\ \A j \in LogIdx :
                   (log[j].grp = g /\ IsBackendOp(log[j])) => \E a \in auths : a < j

\* A group on a property sub-resource was authorized and written, and so was
\* a group of two items, both of them written.
C6_Witness ==
    /\ pc = "done"
    /\ \E j \in LogIdx : log[j].ev = "write" /\ log[j].prop # NoName
    /\ \E j, k \in LogIdx :
         /\ j < k
         /\ log[j].ev = "write" /\ log[k].ev = "write"
         /\ log[j].grp = log[k].grp
         /\ log[j].idx # log[k].idx

\* C7 as stated, for the scope check of validate_data: after the
\* authorization error no item of the group it arose in, nor of a later group,
\* has been written.
C7_NoItemOfFailingGroupWritten ==
    \A k \in 1..Len(errs) :
      (errs[k].name \in AuthErrors /\ errs[k].stage = "validate") =>
        \A j \in LogIdx : log[j].ev = "write" => log[j].grp < seen[errs[k].idx].grp

\* C7, amended: an authorization error ends push_stream with that error
\* whatever stop_on_error is: it is the last error, no item carries it, and
\* nothing is yielded and no backend operation happens after it; when it is
\* the authorize call that fails, no item of that group is read or written at
\* all.
C7_AuthErrorAborts ==
    /\ \A k \in 1..Len(errs) :
         errs[k].name \in AuthErrors =>
           /\ raised = errs[k].name
           /\ pc = "raised"
           /\ k = Len(errs)
           /\ Len(out) = errs[k].outat
           /\ \A j \in LogIdx : j > errs[k].at => ~IsBackendOp(log[j]) /\ log[j].ev # "emit"
           /\ errs[k].stage = "authorize" =>
                \A j \in LogIdx : log[j].grp = seen[errs[k].idx].grp => ~IsBackendOp(log[j])
    /\ \A k \in OutIdx : out[k].error \notin AuthErrors
    /\ cur # None => cur[1].error \notin AuthErrors

\* A fault-tolerant stream was ended by an authorization error of a later
\* group after an item of an earlier group had been written and yielded.
C7_Witness ==
    /\ ~stop_on_error
    /\ raised \in AuthErrors
    /\ Len(out) >= 1
    /\ \E j \in LogIdx : log[j].ev = "write"
    /\ log[Len(log)].ev = "authorize"

\* C8: an item whose model or action is unset is yielded exactly as it was
\* made, in its place among the other items, and no authorize call, backend
\* read, backend write or changelog append is made for it.
C8_UnroutedItemsPassUnchanged ==
    /\ \A i \in SeenIdx :
         LET d == seen[i].data
         IN Unrouted(d) =>
              /\ \A j \in LogIdx : log[j].idx = i => log[j].ev = "emit"
              /\ \/ cur = Some(d) /\ pc = "emit"
                 \/ \E k \in OutIdx : out[k] = d
    /\ \A k, l \in OutIdx : k < l => out[k].idx < out[l].idx

\* An item with a model and no action was yielded between two items that
\* were written.
C8_Witness ==
    /\ pc = "done"
    /\ Len(out) = 3
    /\ out[2].model # NoName
    /\ out[2].action = NoName
    /\ out[1].patch # None
    /\ out[3].patch # None

C10_NotFoundIsAnItemError ==
    (/\ ~stop_on_error
     /\ cur # None
     /\ cur[1].error = "ItemDoesNotExist")
    => /\ raised = NoName
       /\ pc = "validate"
       /\ cur[1].saved = None

Matching(table, where) ==
    {row \in table :
       IF where.field = "_id" THEN row.id = where.value
       ELSE where.field \in DOMAIN row.vals /\ row.vals[where.field] = where.value}

\* An item that has left read_existing_data and waits for validate_data.
AfterRead == pc = "validate" /\ cur # None /\ cur[1].action # INSERT /\ cur[1].given # None

\* C12: an UPSERT or an UPDATE by _id whose filter matches more than one row
\* leaves read_existing_data with the error MultipleRowsFound and with saved
\* unset.
C12_MultipleRowsIsAnError ==
    (/\ AfterRead
     /\ cur[1].action = UPSERT \/ _has_id_in_where(cur[1].given[1])
     /\ Cardinality(Matching(store, cur[1].given[1].where[1])) > 1)
    => /\ cur[1].error = "MultipleRowsFound"
       /\ cur[1].saved = None

\* C13: an UPDATE or PATCH by a general predicate goes on from
\* read_existing_data once for every row its filter matches, each time with
\* one of those rows as saved: an item that goes on has a matching row as
\* saved, it is the only one to go on only if one row matches, and an item is
\* dropped only if no row matches.
C13_FanOutPerMatchingRow ==
    /\ (/\ AfterRead
        /\ cur[1].action \in {UPDATE, PATCH}
        /\ ~_has_id_in_where(cur[1].given[1]))
       => /\ cur[1].saved # None
          /\ cur[1].saved[1] \in Matching(store, cur[1].given[1].where[1])
          /\ Cardinality(Matching(store, cur[1].given[1].where[1])) = 1
    /\ (pc = "next" /\ log # <<>> /\ log[Len(log)].ev = "drop")
       => Matching(store, seen[log[Len(log)].idx].data.payload[1].where[1]) = {}

\* The call of build_data_patch_for_write has returned.
Built == patch_call.result.t # "pending"

\* C14: build_data_patch_for_write without fill on a given tree equal to the
\* saved tree returns the empty patch.
C14_EqualTreesGiveEmptyPatch ==
    (Built /\ ~patch_call.fill /\ patch_call.given = patch_call.saved)
    => patch_call.result = Dict(EmptyDict)

\* The properties of a Model or an Object that are not internal.
NonInternal(dtype) == {k \in DOMAIN dtype.properties : ~IsInternal(k)}

\* C16 as stated, for scalar properties: with given = {} and fill the patch
\* holds the declared default of every scalar property that is not internal.
C16_FillHoldsEveryDefault ==
    (Built /\ patch_call.fill /\ patch_call.given = Dict(EmptyDict))
    => /\ patch_call.result.t = "dict"
       /\ \A k \in NonInternal(patch_call.dtype) :
            patch_call.dtype.properties[k].kind = "scalar" =>
              /\ k \in DOMAIN patch_call.result.d
              /\ patch_call.result.d[k] = patch_call.dtype.properties[k].default

\* What fill leaves in the patch for the scalar properties of a Model or an
\* Object nothing was given for: the default of every property whose saved
\* value is not that default, and no entry for the others.
DefaultsThatDiffer(dtype, patch, saved) ==
    \A k \in NonInternal(dtype) :
      dtype.properties[k].kind = "scalar" =>
        IF dtype.properties[k].default = GetIf(saved, k)
        THEN k \notin DOMAIN patch
        ELSE k \in DOMAIN patch /\ patch[k] = dtype.properties[k].default

\* C16, amended: with given = {}, fill=True yields a patch that holds the
\* declared default of exactly those scalar properties, not internal, whose
\* saved value differs from the default (in a nested object too), holds for
\* an array property the saved array, or [] when none is saved, and holds no
\* internal property; fill=False yields the empty patch.  The two results
\* differ exactly when the fill=True patch is not empty.
C16_FillResetsToDefaults ==
    /\ (Built /\ ~patch_call.fill /\ patch_call.given = Dict(EmptyDict))
       => patch_call.result = Dict(EmptyDict)
    /\ (Built /\ patch_call.fill /\ patch_call.given = Dict(EmptyDict))
       => LET dtype == patch_call.dtype
              saved == patch_call.saved
              patch == patch_call.result.d
          IN /\ patch_call.result.t = "dict"
             /\ DOMAIN patch \subseteq NonInternal(dtype)
             /\ DefaultsThatDiffer(dtype, patch, saved)
             /\ \A k \in NonInternal(dtype) :
                  /\ dtype.properties[k].kind = "array" =>
                       /\ k \in DOMAIN patch
                       /\ patch[k] = (IF Truthy(PyGet(saved, k)) THEN PyGet(saved, k)
                                      ELSE List(<<>>))
                  /\ dtype.properties[k].kind = "object" =>
                       IF k \in DOMAIN patch
                       THEN /\ patch[k].t = "dict"
                            /\ DefaultsThatDiffer(dtype.properties[k], patch[k].d,
                                                  PyGet(saved, k))
                       ELSE DefaultsThatDiffer(dtype.properties[k], EmptyDict, PyGet(saved, k))

\* A patch was built with fill from given = {} against a saved row none of
\* whose scalars is at its default: it holds both defaults.
C16_Witness ==
    /\ Built
    /\ patch_call.fill
    /\ patch_call.given = Dict(EmptyDict)
    /\ patch_call.saved = Dict("title" :> Num(1) @@ "p" :> Num(1))
    /\ patch_call.result = Dict("title" :> Num(0) @@ "p" :> Null)

\* An array element as a fresh object: every property of the item type that
\* is not internal, with the element's value where it has one and the default
\* where it has none (an empty element is falsy, and stands in for each of
\* its values itself).
FilledElement(items, element) ==
    Dict([k \in NonInternal(items) |->
            IF ~Truthy(element) THEN element
            ELSE IF k \in DOMAIN element.d THEN element.d[k]
            ELSE items.properties[k].default])

\* A given array, every element a fresh object.
Rebuilt(dtype, given) == List([i \in 1..Len(given.l) |-> FilledElement(dtype.items, given.l[i])])

PatchedItems ==
    {out[k] : k \in {m \in OutIdx : out[m].patch # None}}
      \cup (IF cur # None /\ cur[1].patch # None THEN {cur[1]} ELSE {})

\* A value gen_object_id has handed out.
Generated(v) == v >= FirstFresh /\ v < fresh

\* C15: an item whose patch is empty reaches no backend write primitive and
\* gets no changelog entry, and it carries no error.
C15_EmptyPatchIsNoOp ==
    \A d \in PatchedItems :
      ~PatchNonEmpty(d.patch[1]) =>
        /\ d.error = NoName
        /\ \A j \in LogIdx : log[j].idx = d.idx => log[j].ev \notin {"write", "changelog"}

\* C18: after prepare_patch a patch holds a _revision exactly when it holds
\* anything else (an _id or a value), and the revision is one gen_object_id
\* made for this patch: not the saved revision, not the revision the client
\* gave, not the patch's _id and not the revision of another item's patch.
C18_RevisionIffPatchNonEmpty ==
    \A d \in PatchedItems :
      LET patch == d.patch[1]
      IN /\ patch.revision # None <=> (patch.id # None \/ DOMAIN patch.vals # {})
         /\ patch.revision # None =>
              /\ Generated(patch.revision[1])
              /\ d.saved # None => patch.revision[1] # d.saved[1].revision
              /\ d.given[1].revision # None => patch.revision # d.given[1].revision
              /\ patch.revision # patch.id
              /\ \A e \in PatchedItems :
                   e.idx # d.idx => e.patch[1].revision # patch.revision

\* Two items were yielded, one with values in its patch and a revision, one
\* with an empty patch and no revision.
C18_Witness ==
    \E k, l \in OutIdx :
      /\ out[k].patch # None /\ out[l].patch # None
      /\ DOMAIN out[k].patch[1].vals # {}
      /\ out[k].patch[1].revision # None
      /\ out[k].saved # None
      /\ DOMAIN out[l].patch[1].vals = {}
      /\ out[l].patch[1].id = None
      /\ out[l].patch[1].revision = None

\* C19: after prepare_patch the patch of an INSERT holds an _id, the one the
\* client gave or else one gen_object_id made; the patch of any other action
\* holds an _id only if the client gave one that is not the saved row's, and
\* then it is the one the client gave.
C19_PatchId ==
    \A d \in PatchedItems :
      LET patch == d.patch[1]
          given == d.given[1]
      IN IF d.action = INSERT
         THEN /\ patch.id # None
              /\ given.id # None => patch.id = given.id
              /\ given.id = None =>
                   /\ Generated(patch.id[1])
                   /\ \A e \in PatchedItems : e.idx # d.idx => e.patch[1].id # patch.id
         ELSE patch.id # None =>
                /\ given.id # None
                /\ patch.id = given.id
                /\ d.saved = None \/ d.saved[1].id # given.id[1]

\* An INSERT with a given _id, an INSERT without one and an UPSERT that gave
\* the _id of the row it found were yielded.
C19_Witness ==
    \E k, l, m \in OutIdx :
      /\ out[k].action = INSERT /\ out[k].given[1].id # None /\ out[k].patch # None
      /\ out[l].action = INSERT /\ out[l].given[1].id = None /\ out[l].patch # None
      /\ out[m].action = UPSERT /\ out[m].given[1].id # None /\ out[m].patch # None
      /\ out[m].saved # None
      /\ out[m].patch[1].id = None

\* C20: in a fault-tolerant stream a PATCH whose _revision is not the stored
\* row's revision becomes an item carrying the conflict error, the stream
\* does not end in an exception, and the row is not written for it.
C20_StaleRevisionIsAnItemError ==
    ~stop_on_error =>
      \A k \in 1..Len(errs) :
        errs[k].name = "ConflictingValue" =>
          /\ raised = NoName
          /\ \/ cur # None /\ cur[1].idx = errs[k].idx /\ cur[1].error = "ConflictingValue"
             \/ \E m \in OutIdx : out[m].idx = errs[k].idx /\ out[m].error = "ConflictingValue"
          /\ \A j \in LogIdx : log[j].idx = errs[k].idx => log[j].ev # "write"

----------------------------------------------------------------------------
\* Two requests on one row

\* The requests that have run their backend primitive.
Wrote(w) ==
    \/ writers[w].at = "done"
    \/ writers[w].at = "raised" /\ writers[w].error[1].stage = "write"

\* C21: when two interleaved requests have read the same row at the same
\* revision and both have run the update or delete primitive, at most one of
\* the writes was applied, and a write that was not applied failed with
\* ItemDoesNotExist carrying the id and the revision it looked for.
C21_AtMostOneWriteApplied ==
    \A w1 \in Writers : \A w2 \in Writers \ {w1} :
      (/\ Wrote(w1) /\ Wrote(w2)
       /\ writers[w1].data.saved = writers[w2].data.saved)
      => /\ ~(writers[w1].applied /\ writers[w2].applied)
         /\ ~writers[w1].applied
              => writers[w1].error =
                   Some([name |-> "ItemDoesNotExist", stage |-> "write",
                         id |-> writers[w1].data.saved[1].id,
                         revision |-> writers[w1].data.saved[1].revision])

----------------------------------------------------------------------------
\* The changelog

ChangelogIdx == 1..Len(changelog)

\* A call of a backend primitive that wrote: it did not raise.
WrittenOk(j) ==
    /\ log[j].ev = "write"
    /\ \A e \in 1..Len(errs) : ~(errs[e].idx = log[j].idx /\ errs[e].stage = "dispatch")

\* C22: every item a backend primitive wrote has exactly one changelog entry
\* once create_changelog_entry has had it, appended after the write; every
\* entry is of an item that was written; the entries stand in input-stream
\* order; and no item that an error was created for has an entry.
C22_OneChangelogEntryPerWrite ==
    /\ \A j \in LogIdx :
         WrittenOk(j) =>
           LET k == log[j].idx
               entries == {c \in ChangelogIdx : changelog[c].idx = k}
               appends == {l \in LogIdx : log[l].ev = "changelog" /\ log[l].idx = k}
           IN IF pc = "changelog" /\ cur[1].idx = k
              THEN entries = {} /\ appends = {}
              ELSE /\ Cardinality(entries) = 1
                   /\ Cardinality(appends) = 1
                   /\ \A l \in appends : l > j
    /\ \A c \in ChangelogIdx :
         /\ \E j \in LogIdx : WrittenOk(j) /\ log[j].idx = changelog[c].idx
         /\ seen[changelog[c].idx].data.error = NoName
         /\ \A e \in 1..Len(errs) : errs[e].idx # changelog[c].idx
    /\ \A c1, c2 \in ChangelogIdx : c1 < c2 => changelog[c1].idx < changelog[c2].idx

\* A stream ended that wrote two items with an error item between them: two
\* entries, none for the error item.
C22_Witness ==
    /\ pc = "done"
    /\ Len(changelog) = 2
    /\ \E o \in OutIdx : /\ out[o].error # NoName
                          /\ changelog[1].idx < out[o].idx
                          /\ out[o].idx < changelog[2].idx

\* C23: when the stream is cancelled, every item a backend primitive wrote
\* has its changelog entry: no cancelled run leaves a write applied whose
\* entry is never appended.
C23_CancelKeepsWriteAndChangelogTogether ==
    pc = "cancelled" =>
      \A j \in LogIdx :
        WrittenOk(j) => \E c \in ChangelogIdx : changelog[c].idx = log[j].idx

----------------------------------------------------------------------------
\* Authorization

\* A call of fn that has returned or raised.
AuthReturned(fn) == auth_call.fn = fn /\ auth_call.result # "pending"

\* The token of the call holds the scope of a name for the action.
Holds(name) == ScopeName(name, AuthAction) \in auth_call.tok.scopes

\* The call let the client through.
Accepted == auth_call.result \in {"None", "True"}

\* The call is made for the default client on a node below open access.
ByDefaultClientBelowOpen ==
    /\ auth_call.tok.client = DefaultAuthClient
    /\ auth_call.node.access # "open"

\* C24 as stated: for a property that is not hidden a token holding the
\* owning model's scope or the property's own scope is accepted and a token
\* holding neither is rejected with InsufficientScopeError; for a hidden
\* property a token is accepted only with the property's own scope.
C24_OrRule ==
    (/\ AuthReturned("authorized") \/ AuthReturned("check_generated_scopes")
     /\ auth_call.node.kind = "property")
    => LET node == auth_call.node
       IN IF ~node.hidden
          THEN /\ (Holds(node.model) \/ Holds(node.own)) => Accepted
               /\ ~(Holds(node.model) \/ Holds(node.own))
                    => auth_call.result = "InsufficientScopeError"
          ELSE Accepted => Holds(node.own)

\* C24, amended: for a client that is not the default client on a node below
\* open, authorized accepts a property that is not hidden and above private
\* access exactly with the property's own scope, the owning model's scope or
\* the scope of the model's namespace or of one of its ancestors; it accepts a
\* hidden property, and a private one, exactly with the property's own scope,
\* so the model-level scope alone is rejected; a rejected token gets
\* InsufficientScopeError when throw is on and False when it is off.
\* check_generated_scopes accepts the global scope for every property, and
\* besides it the model's or the property's scope for a property that is not
\* hidden and only the property's scope for a hidden one; it rejects with
\* InsufficientScopeError.
C24_OrRuleAbovePrivate ==
    /\ (/\ AuthReturned("authorized")
        /\ auth_call.node.kind = "property"
        /\ ~ByDefaultClientBelowOpen)
       => LET node == auth_call.node
              accepting == IF node.hidden \/ node.access = "private"
                           THEN {node.own}
                           ELSE {node.own, node.model, node.ns} \cup node.parents
          IN /\ Accepted <=> \E n \in accepting : Holds(n)
             /\ ~Accepted => auth_call.result = IF auth_call.throw
                                                THEN "InsufficientScopeError"
                                                ELSE "False"
    /\ (/\ AuthReturned("check_generated_scopes")
        /\ auth_call.node.kind = "property")
       => LET node == auth_call.node
          IN /\ Accepted <=> \/ Holds("")
                             \/ Holds(node.own)
                             \/ ~node.hidden /\ Holds(node.model)
             /\ ~Accepted => auth_call.result = "InsufficientScopeError"

\* authorized has rejected, for a client with the model's scope and the
\* namespaces' scopes, a hidden property above private access.
C24_Witness ==
    /\ AuthReturned("authorized")
    /\ auth_call.node.kind = "property"
    /\ auth_call.node.hidden
    /\ auth_call.node.access = "protected"
    /\ auth_call.tok.client # DefaultAuthClient
    /\ auth_call.throw
    /\ Holds("M") /\ Holds("ns") /\ Holds("") /\ ~Holds("M_p")
    /\ auth_call.result = "InsufficientScopeError"

\* C25: for the default client authorized rejects every node below open
\* access, with AuthorizedClientsOnly when throw is on and with False when
\* it is off, whatever scopes the token holds; at open access the default
\* client is judged by its scopes like any other and gets through with the
\* node's own scope.
C25_DefaultClientOnlyOpen ==
    (AuthReturned("authorized") /\ auth_call.tok.client = DefaultAuthClient)
    => IF AccessRank(auth_call.node.access) < AccessRank("open")
       THEN auth_call.result = IF auth_call.throw THEN "AuthorizedClientsOnly" ELSE "False"
       ELSE /\ auth_call.result # "AuthorizedClientsOnly"
            /\ Holds(auth_call.node.own) => Accepted

\* The default client, holding every scope, was turned away from a public node.
C25_Witness ==
    /\ AuthReturned("authorized")
    /\ auth_call.tok.client = DefaultAuthClient
    /\ auth_call.node.access = "public"
    /\ \A n \in {"M_p", "M", "ns", ""} : Holds(n)
    /\ auth_call.throw
    /\ auth_call.result = "AuthorizedClientsOnly"

\* The names of a node's namespace and of the ancestors of that namespace.
NamespaceNames(node) == ({node.ns} \ {NoName}) \cup node.parents

\* C26 as stated: a private node is accepted only with its own scope, and for
\* a node above private the scope of its namespace or of an ancestor
\* namespace is sufficient.
C26_PrivateNeedsOwnScope ==
    AuthReturned("authorized")
    => LET node == auth_call.node
       IN IF AccessRank(node.access) <= AccessRank("private")
          THEN Accepted => Holds(node.own)
          ELSE (\E n \in NamespaceNames(node) : Holds(n)) => Accepted

\* C26, amended: a private node is accepted only with its own scope; for a
\* node above private that is not a hidden property, and a client that is not
\* the default client on a node below open, the scope of its namespace or of
\* an ancestor namespace is sufficient.
C26_PrivateNeedsOwnScopeHiddenToo ==
    AuthReturned("authorized")
    => LET node == auth_call.node
       IN IF AccessRank(node.access) <= AccessRank("private")
          THEN Accepted => Holds(node.own)
          ELSE (/\ ~(node.kind = "property" /\ node.hidden)
                /\ ~ByDefaultClientBelowOpen
                /\ \E n \in NamespaceNames(node) : Holds(n)) => Accepted

\* authorized has rejected, for a client with the model's scope and the
\* namespaces' scopes, a private property that is not hidden.
C26_Witness ==
    /\ AuthReturned("authorized")
    /\ auth_call.node.kind = "property"
    /\ ~auth_call.node.hidden
    /\ auth_call.node.access = "private"
    /\ auth_call.tok.client # DefaultAuthClient
    /\ Holds("M") /\ Holds("ns") /\ Holds("") /\ ~Holds("M_p")
    /\ ~Accepted

----------------------------------------------------------------------------
\* validate_data

\* The payload item k was made from.
PayloadOf(k) == seen[k].data.payload[1]

\* Item k is a routed item whose payload gives an _id.
GivesId(k) ==
    /\ ~Unrouted(seen[k].data)
    /\ PayloadOf(k).id # None

\* The token of the request holds the set_meta_fields scope.
MaySetMetaFields == ScopeName("", "set_meta_fields") \in token.scopes

\* Item k never got past validate_data: it has no patch, reached no backend
\* primitive and has no changelog entry.
StoppedBeforePatch(k) ==
    /\ \A d \in PatchedItems : d.idx # k
    /\ ~(cur # None /\ cur[1].idx = k /\ pc = "patch")
    /\ \A j \in LogIdx : log[j].idx = k => log[j].ev \notin {"write", "changelog"}
    /\ \A c \in ChangelogIdx : changelog[c].idx # k

\* Every exception validate_data raised for item k is the named one, and it
\* ended the request; when k is the first item the table is as it was.
RejectedWith(k, name) ==
    \A e \in 1..Len(errs) :
      (errs[e].idx = k /\ errs[e].stage = "validate")
      => /\ errs[e].name = name
         /\ raised = name
         /\ pc = "raised"
         /\ k = 1 => store = InitialStore

\* C27: an item whose payload gives an _id, sent with a token that lacks the
\* set_meta_fields scope, is rejected by validate_data with
\* InsufficientScopeError and writes no row; with the scope, the row the
\* primitive has written for the item is stored under the given _id.
C27_SetIdNeedsScope ==
    \A k \in SeenIdx :
      GivesId(k) =>
        IF ~MaySetMetaFields
        THEN StoppedBeforePatch(k) /\ RejectedWith(k, "InsufficientScopeError")
        ELSE (cur # None /\ cur[1].idx = k /\ pc = "changelog")
             => \E row \in store : row.id = PayloadOf(k).id[1]

\* A request of a client without set_meta_fields whose second item gave an
\* _id ended with InsufficientScopeError after its first item was inserted.
C27_Witness ==
    /\ pc = "raised"
    /\ raised = "InsufficientScopeError"
    /\ ~MaySetMetaFields
    /\ Len(seen) = 2
    /\ GivesId(2)
    /\ errs[Len(errs)].idx = 2
    /\ errs[Len(errs)].stage = "validate"
    /\ \E j \in LogIdx : WrittenOk(j) /\ log[j].idx = 1

\* C28: an INSERT whose payload gives a _revision never gets past
\* validate_data and nothing is written for it; the exception validate_data
\* raises for it is ManagedProperty (InsufficientScopeError when it also
\* gives an _id without the set_meta_fields scope, which is tested first).
C28_InsertWithRevisionIsManaged ==
    \A k \in SeenIdx :
      (/\ ~Unrouted(seen[k].data)
       /\ seen[k].data.action = INSERT
       /\ PayloadOf(k).revision # None)
      => /\ StoppedBeforePatch(k)
         /\ RejectedWith(k, IF GivesId(k) /\ ~MaySetMetaFields
                            THEN "InsufficientScopeError"
                            ELSE "ManagedProperty")

\* A request ended with ManagedProperty on its second item, an INSERT with a
\* _revision, after its first item was inserted.
C28_Witness ==
    /\ pc = "raised"
    /\ raised = "ManagedProperty"
    /\ Len(seen) = 2
    /\ seen[2].data.action = INSERT
    /\ PayloadOf(2).revision # None
    /\ errs[Len(errs)].idx = 2
    /\ errs[Len(errs)].stage = "validate"
    /\ \E j \in LogIdx : WrittenOk(j) /\ log[j].idx = 1

----------------------------------------------------------------------------
\* The query builder

CallIdx == 1..Len(builder.calls)

\* C30: a select call made when selected is already set raises RuntimeError
\* and leaves the selected map as it was; build makes the default select
\* exactly when selected is still unset; so selected is set by at most one
\* call on an environment.
C30_SelectOnce ==
    /\ \A i \in CallIdx :
         LET c == builder.calls[i]
         IN /\ (c.op = "select" /\ c.before.selected # None)
               => /\ c.raise = "RuntimeError: already called"
                  /\ c.after.selected = c.before.selected
            /\ c.op = "build"
               => (c.after.selected # c.before.selected <=> c.before.selected = None)
    /\ Cardinality({i \in CallIdx : builder.calls[i].before.selected = None
                                     /\ builder.calls[i].after.selected # None}) <= 1

\* C31: a build made when no select list was given selects every property of
\* the model the caller may read for getall, and the selected map it leaves
\* includes the primary identifier _id.
C31_DefaultSelectIncludesId ==
    \A i \in CallIdx :
      LET c == builder.calls[i]
      IN (c.op = "build" /\ c.before.selected = None /\ c.raise = NoName)
         => /\ DOMAIN c.after.selected[1]
                 = {QueryProps[k] : k \in 1..Len(QueryProps)} \cap builder.getall
            /\ "_id" \in DOMAIN c.after.selected[1]

\* C32: after any sequence of select and filter resolutions on one
\* environment no reference path is joined twice and no column is listed
\* twice, and a select of country.name, given once or twice, leaves exactly
\* one join for country and one selected column.
C32_OneJoinOneColumn ==
    /\ \A i \in 1..Len(builder.env.from_) : \A j \in 1..Len(builder.env.from_) :
         i # j => builder.env.from_[i] # builder.env.from_[j]
    /\ \A i \in 1..Len(builder.env.columns) : \A j \in 1..Len(builder.env.columns) :
         i # j => builder.env.columns[i] # builder.env.columns[j]
    /\ \A k \in CallIdx :
         LET c == builder.calls[k]
         IN (c.op = "select" /\ c.raise = NoName /\ c.args[1].name = "country.name")
            => /\ Cardinality({i \in 1..Len(c.after.from_) : c.after.from_[i] = "country"}) = 1
               /\ Len(c.after.columns) = 1

\* C33: an eq filter whose value is a list compiles to a set-membership
\* predicate and an ne filter whose value is a list to a negated one, for a
\* Bind, a plain string and a ForeignProperty operand alike.
C33_ListFiltersAreMembership ==
    \A k \in CallIdx :
      LET c == builder.calls[k]
      IN (c.op \in {"eq", "ne"} /\ c.raise = NoName /\ c.args[2].t = "list")
         => c.result[1].op = (IF c.op = "eq" THEN "in" ELSE "not in")

\* A filter on a reference path was resolved.
FilteredByReference(c) == c.op \in {"eq", "ne"} /\ c.args[1].a = "getattr"

\* The names of the key columns of the right table a reference refers by:
\* the underlying keys of the primary key, or the properties named.
UnderlyingKeys(ref) ==
    IF ref.refprops = <<"_id">> THEN ExternalPkeys[ref.model] ELSE ref.refprops

\* C34: the join built for a reference equates the left table's foreign-key
\* columns with the right table's key columns pairwise, a primary key
\* standing for each of its underlying key columns; when the numbers of
\* columns differ the construction fails and no join is recorded.
C34_JoinConditionPairwise ==
    \A k \in CallIdx :
      LET c == builder.calls[k]
      IN FilteredByReference(c)
         => LET f == c.args[1].field
                left == <<f>>
                right == UnderlyingKeys(Refs[f])
            IN IF Len(left) = Len(right)
               THEN /\ c.raise = NoName
                    /\ f \in DOMAIN c.after.joins
                    /\ c.after.joins[f].table = Refs[f].model
                    /\ c.after.joins[f].condition
                         = [i \in 1..Len(left) |->
                              <<Column(QueryModel, left[i]), Column(Refs[f].model, right[i])>>]
               ELSE /\ c.raise = "AssertionError"
                    /\ c.after.joins = c.before.joins
                    /\ c.after.from_ = c.before.from_

\* A join through a single key was recorded and a join through a composite
\* key was refused.
C34_Witness ==
    /\ \E k \in CallIdx :
         /\ FilteredByReference(builder.calls[k])
         /\ builder.calls[k].args[1].field = "region"
         /\ builder.calls[k].raise = "AssertionError"
    /\ \E k \in CallIdx :
         /\ FilteredByReference(builder.calls[k])
         /\ builder.calls[k].args[1].field = "country"
         /\ "country" \notin DOMAIN builder.calls[k].before.joins
         /\ "country" \in DOMAIN builder.calls[k].after.joins

\* C40: a ForeignProperty built with no chain before it is named after the
\* place of its left property and its chain is itself alone; one built on a
\* chain is named by that chain's name, "->" and the place of its left
\* property, and its chain is that chain followed by itself; and a path of
\* two hops such as country.continent.name resolves.
C40_ChainedNames ==
    \A k \in CallIdx :
      LET c == builder.calls[k]
      IN /\ c.op = "ForeignProperty"
            => LET fpr == c.args[1]
                   left == c.args[2]
                   right == c.args[3]
                   self == [name |-> c.result[1].name, left |-> left, right |-> right]
               IN /\ c.raise = NoName
                  /\ c.result[1].name = (IF fpr = None THEN left.place
                                         ELSE fpr[1].name \o "->" \o left.place)
                  /\ c.result[1].chain = (IF fpr = None THEN <<self>>
                                          ELSE fpr[1].chain \o <<self>>)
         /\ (c.op = "select" /\ c.args[1].a = "path") => c.raise = NoName

----------------------------------------------------------------------------
\* Responses

\* simple_response answered with a status code and a body.
SimpleAnswered == response.kind = "simple" /\ response.raise = NoName

\* The status code the contract gives the one item of a simple response.
ExpectedStatus(data) ==
    IF data.error # NoName THEN status_code(data.error)
    ELSE IF data.action = INSERT THEN 201
    ELSE IF data.action = UPSERT /\ data.saved = None THEN 201
    ELSE IF data.action = DELETE THEN 204
    ELSE 200

SomeItemFailed == \E i \in OutIdx : out[i].error # NoName

\* C36: a batch or summary response has status 400 and _status "error" if an
\* item of the stream carries an error, status 200 and _status "ok"
\* otherwise; the _data of a batch response has one entry for each item
\* yielded, in the order yielded, and the entry of a failed item has _errors.
C36_BatchStatusAndEntries ==
    /\ response.kind \in {"batch", "summary"}
       => /\ response.raise = NoName
          /\ response.status_code = (IF SomeItemFailed THEN 400 ELSE 200)
          /\ response.status = (IF SomeItemFailed THEN "error" ELSE "ok")
    /\ response.kind = "batch"
       => /\ Len(response.data) = Len(out)
          /\ \A i \in OutIdx :
               /\ response.data[i] = _get_simple_response(out[i])
               /\ out[i].error # NoName
                  => /\ "_errors" \in DOMAIN response.data[i].meta
                     /\ response.data[i].meta["_errors"] = <<out[i].error>>

\* A batch of a written item and a failed item was answered with 400.
C36_Witness ==
    /\ response.kind = "batch"
    /\ response.status_code = 400
    /\ \E i \in OutIdx : out[i].error # NoName
    /\ \E i \in OutIdx : out[i].error = NoName /\ "_id" \in DOMAIN response.data[i].meta

\* C38: no item is dropped in silence: when push_stream has ended without an
\* exception, every item it was fed has been yielded at least once, also an
\* UPDATE, PATCH or DELETE by a general predicate that matches no stored row.
C38_NoItemDropped ==
    pc = "done" => \A k \in SeenIdx : \E j \in OutIdx : out[j].idx = k

----------------------------------------------------------------------------
\* The request body

\* C39: for a body that is no batch and for a DELETE request, the body read
\* gives exactly one DataItem, also when its _op is no known action: that one
\* item then carries the UnknownAction error.
C39_OneItemPerBody ==
    (/\ request.kind = "body"
     /\ request.read
     /\ request.raise = NoName
     /\ request.action = DELETE \/ ~request.body.batch)
    => /\ Len(request.items) = 1
       /\ (/\ request.action # DELETE
           /\ request.body.op \notin {NoName} \cup Actions)
          => request.items[1].error = "UnknownAction"

----------------------------------------------------------------------------
\* Wipe

\* The models a wipe request covers.
Covered == IF request.target = "" THEN {"M", "N"} ELSE {request.target}

\* The client holds no scope that allows the wipe of a model the request
\* covers: neither the wipe scope of the root namespace nor a model's.
LacksWipeScope ==
    \A m \in Covered :
      ScopeName("", WIPE) \notin request.token.scopes
      /\ ScopeName(m, WIPE) \notin request.token.scopes

====
